---------------------------- MODULE Spec2Model ----------------------------
(***************************************************************************)
(* A.M.I. (Arts Management Insights): the application state container of   *)
(* src/src/index.js (the App component, its load and save effects, the     *)
(* form handlers that replace the workspace document) and the store        *)
(* adapter it persists through.                                            *)
(*                                                                         *)
(* JavaScript values are modelled as follows: null is Null, a string is a  *)
(* TLA+ string, a number an integer, an array a sequence, an object a      *)
(* record.  A JSON text is not the value it encodes: it is a tree of tagged*)
(* nodes, built by JSONstringify and decoded by JSONparse.                 *)
(***************************************************************************)
EXTENDS Integers, Sequences, FiniteSets, TLC

VARIABLES
  data,      \* App: const [data, setData] = useState(null)
  loading,   \* App: const [loading, setLoading] = useState(true)
  ui,        \* component-local React state (currentView, selectedProduction, ...)
  store,     \* the backing store: key -> stored value
  env,       \* the environment: which adapter window.storage is, and whether the medium can fail
  inflight,  \* promises returned by a host-provided window.storage.set, not yet settled
  clock,     \* the instant Date.now() and new Date() read
  last,      \* history: the handler or callback that ran last (op, arg), whether
             \* it called setData and with which document (doc), how the save
             \* effect's storage set ended (saved), the document whose write
             \* reached the store in this step (written), and what console.error
             \* was given (logged); afterFailed: the step before it was a
             \* storage set that failed
  prev       \* history: `data` before that handler ran

vars == <<data, loading, ui, store, env, inflight, clock, last, prev>>

-----------------------------------------------------------------------------
(* Bounds of the model *)

MaxClock == 4        \* the clock is read in 0..MaxClock
MaxLen == 2          \* records per collection
MaxInflight == 1     \* unsettled set promises
MaxRecords == 1      \* records kept while every form and delete button is tried

-----------------------------------------------------------------------------
(* JavaScript values *)

Null == [null |-> TRUE]

\* `if (x)` on a value that is null or an object
Truthy(v) == v # Null

\* The strings a text input is given: empty, blank, and a padded text
Texts == {"", " ", " a "}

\* String.prototype.trim
Trim(s) ==
  CASE s = " " -> ""
    [] s = " a " -> "a"
    [] OTHER -> s

\* Array.prototype.filter is SelectSeq, Array.prototype.map a function over 1..Len

Range(s) == {s[i] : i \in 1..Len(s)}

\* new Date(t).toISOString(): the text of an instant
IsoString(t) == "iso:" \o ToString(t)

-----------------------------------------------------------------------------
(* JSON.  A JSON text is a tree of tagged nodes:                             *)
(*   [t |-> "null"], [t |-> "num", v |-> n], [t |-> "str", v |-> s],         *)
(*   [t |-> "bool", v |-> b], [t |-> "arr", v |-> <<node, ...>>],            *)
(*   [t |-> "obj", v |-> <<[k |-> key, j |-> node], ...>>]                   *)
(* The shapes below say which JavaScript type each property of the workspace *)
(* document holds, which is what JSON.stringify finds at run time.           *)

TNum == [ty |-> "num"]
TStr == [ty |-> "str"]
TBool == [ty |-> "bool"]
TArr(e) == [ty |-> "arr", of |-> e]
TObj(fs) == [ty |-> "obj", fields |-> fs]
TNullable(e) == [ty |-> "nullable", of |-> e]
Prop(k, s) == [k |-> k, s |-> s]

UserShape ==
  TObj(<<Prop("name", TStr), Prop("organization", TStr), Prop("createdAt", TStr)>>)

CustomRoleShape ==
  TObj(<<Prop("id", TStr), Prop("name", TStr), Prop("type", TStr),
         Prop("features", TArr(TStr))>>)

EmployeeShape ==
  TObj(<<Prop("id", TNum), Prop("name", TStr), Prop("position", TStr),
         Prop("department", TStr), Prop("email", TStr), Prop("phone", TStr),
         Prop("startDate", TStr), Prop("notes", TStr), Prop("createdAt", TStr),
         Prop("role", TStr)>>)

GroupShape ==
  TObj(<<Prop("id", TNum), Prop("name", TStr), Prop("members", TArr(TNum)),
         Prop("createdAt", TStr)>>)

TodoShape ==
  TObj(<<Prop("id", TNum), Prop("text", TStr), Prop("category", TStr),
         Prop("priority", TStr), Prop("dueDate", TStr), Prop("status", TStr),
         Prop("completed", TBool), Prop("createdAt", TStr)>>)

MeetingShape ==
  TObj(<<Prop("id", TNum), Prop("title", TStr), Prop("date", TStr),
         Prop("time", TStr), Prop("attendees", TStr), Prop("agenda", TStr),
         Prop("preMeetingNotes", TStr), Prop("postMeetingReflection", TStr),
         Prop("actionItems", TStr), Prop("notes", TStr), Prop("createdAt", TStr)>>)

ContactShape ==
  TObj(<<Prop("id", TNum), Prop("name", TStr), Prop("organization", TStr),
         Prop("email", TStr), Prop("phone", TStr), Prop("notes", TStr),
         Prop("createdAt", TStr)>>)

JournalEntryShape ==
  TObj(<<Prop("id", TNum), Prop("title", TStr), Prop("content", TStr),
         Prop("ei_rating", TNum), Prop("psych_safety_rating", TNum),
         Prop("mood_rating", TNum), Prop("date", TStr), Prop("role", TStr),
         Prop("createdAt", TStr)>>)

MetricShape ==
  TObj(<<Prop("id", TNum), Prop("date", TStr), Prop("ei_rating", TNum),
         Prop("psych_safety_rating", TNum), Prop("mood_rating", TNum),
         Prop("role", TStr)>>)

RehearsalReportShape ==
  TObj(<<Prop("id", TNum), Prop("production", TStr), Prop("date", TStr),
         Prop("startTime", TStr), Prop("endTime", TStr), Prop("scenesWorked", TStr),
         Prop("attendees", TStr), Prop("absentees", TStr),
         Prop("accomplishments", TStr), Prop("challenges", TStr),
         Prop("notesForNextTime", TStr), Prop("safetyIncidents", TStr),
         Prop("morale", TNum), Prop("createdAt", TStr)>>)

ProductionShape ==
  TObj(<<Prop("id", TNum), Prop("title", TStr), Prop("openingDate", TStr),
         Prop("closingDate", TStr), Prop("venue", TStr), Prop("createdAt", TStr)>>)

CastCrewShape ==
  TObj(<<Prop("id", TNum), Prop("productionId", TNum), Prop("name", TStr),
         Prop("role", TStr), Prop("type", TStr), Prop("contact", TStr),
         Prop("notes", TStr), Prop("createdAt", TStr)>>)

ProjectEventShape ==
  TObj(<<Prop("id", TNum), Prop("title", TStr), Prop("type", TStr),
         Prop("startDate", TStr), Prop("endDate", TStr), Prop("budget", TStr),
         Prop("status", TStr), Prop("description", TStr), Prop("teamMembers", TStr),
         Prop("goals", TStr), Prop("milestones", TStr), Prop("createdAt", TStr)>>)

ResourceShape ==
  TObj(<<Prop("id", TNum), Prop("title", TStr), Prop("url", TStr),
         Prop("category", TStr), Prop("favorite", TBool), Prop("createdAt", TStr)>>)

\* The workspace document, in the order initializeData writes its properties
DocShape ==
  TObj(<<Prop("user", TNullable(UserShape)), Prop("activeRole", TStr),
         Prop("customRoles", TArr(CustomRoleShape)),
         Prop("employees", TArr(EmployeeShape)),
         Prop("employeeGroups", TArr(GroupShape)),
         Prop("todos", TArr(TodoShape)),
         Prop("meetings", TArr(MeetingShape)),
         Prop("contacts", TArr(ContactShape)),
         Prop("journalEntries", TArr(JournalEntryShape)),
         Prop("metrics", TArr(MetricShape)),
         Prop("rehearsalReports", TArr(RehearsalReportShape)),
         Prop("productions", TArr(ProductionShape)),
         Prop("castCrew", TArr(CastCrewShape)),
         Prop("projectEvents", TArr(ProjectEventShape)),
         Prop("resources", TArr(ResourceShape))>>)

\* JSON.stringify of a value of shape s: an object writes the properties it
\* has, in order; an array its elements; null is written as null.
RECURSIVE Serialize(_, _)
Serialize(v, s) ==
  CASE s.ty = "num" -> [t |-> "num", v |-> v]
    [] s.ty = "str" -> [t |-> "str", v |-> v]
    [] s.ty = "bool" -> [t |-> "bool", v |-> v]
    [] s.ty = "nullable" ->
         IF v = Null THEN [t |-> "null"] ELSE Serialize(v, s.of)
    [] s.ty = "arr" ->
         [t |-> "arr", v |-> [i \in 1..Len(v) |-> Serialize(v[i], s.of)]]
    [] s.ty = "obj" ->
         LET own == SelectSeq(s.fields, LAMBDA f : f.k \in DOMAIN v)
         IN [t |-> "obj",
             v |-> [i \in 1..Len(own) |->
                      [k |-> own[i].k, j |-> Serialize(v[own[i].k], own[i].s)]]]

\* The value a well-formed JSON text decodes to
RECURSIVE Deserialize(_)
Deserialize(j) ==
  CASE j.t = "null" -> Null
    [] j.t \in {"num", "str", "bool"} -> j.v
    [] j.t = "arr" -> [i \in 1..Len(j.v) |-> Deserialize(j.v[i])]
    [] j.t = "obj" ->
         [k \in {j.v[i].k : i \in 1..Len(j.v)} |->
            Deserialize(j.v[CHOOSE i \in 1..Len(j.v) :
                              /\ j.v[i].k = k
                              /\ \A m \in (i + 1)..Len(j.v) : j.v[m].k # k].j)]

(* What a string held by the store can be:                                  *)
(*   [kind |-> "text", j |-> node]   a well-formed JSON text                *)
(*   [kind |-> "garbage"]            a non-empty string that is not JSON    *)
(*   [kind |-> "empty"]              the empty string                       *)
(* and [kind |-> "absent"] is the null that getItem returns for no entry.   *)
Absent == [kind |-> "absent"]
Garbage == [kind |-> "garbage"]
EmptyString == [kind |-> "empty"]

\* JSON.stringify(data), line 204
JSONstringify(d) == [kind |-> "text", j |-> Serialize(d, DocShape)]

\* JSON.parse(stored), line 90: the value, or a SyntaxError
JSONparse(str) ==
  IF str.kind = "text"
  THEN [threw |-> FALSE, value |-> Deserialize(str.j)]
  ELSE [threw |-> TRUE]

\* `if (stored)`, line 89: null and the empty string are falsy
TruthyString(str) == str.kind \in {"text", "garbage"}

-----------------------------------------------------------------------------
(* The store adapter, lines 7-28, and the host's window.storage *)

LoadKey == "ami_data"      \* window.storage.get('ami_data'), line 88
\* (mutant) the save effect writes under another key than the load reads
SaveKeyOther == "ami_state"
SaveKey == "ami_data"      \* window.storage.set('ami_data', ...), line 204
StoreKeys == {LoadKey, SaveKey}

Adapters == {"fallback", "native"}

\* localStorage-backed get, lines 9-17: getItem's value in a resolved promise;
\* when getItem throws, the error is logged and the promise resolves to null.
FallbackGet(key, st, faulty) ==
  {[result |-> "resolved", value |-> st[key], logged |-> {}]}
  \cup (IF faulty
        THEN {[result |-> "resolved", value |-> Absent,
               logged |-> {"Error reading from storage:"}]}
        ELSE {})

\* A host-provided get: resolves to the stored string or null, or fails
\* (a rejected promise, or an exception thrown by the call).
NativeGet(key, st, faulty) ==
  {[result |-> "resolved", value |-> st[key], logged |-> {}]}
  \cup (IF faulty
        THEN {[result |-> "rejected", value |-> Absent, logged |-> {}],
              [result |-> "threw", value |-> Absent, logged |-> {}]}
        ELSE {})

StorageGet(key, st, e) ==
  IF e.adapter = "fallback" THEN FallbackGet(key, st, e.faulty)
  ELSE NativeGet(key, st, e.faulty)

\* localStorage-backed set, lines 18-26: setItem, then a resolved promise;
\* when setItem throws, the error is logged and a rejected promise returned.
FallbackSet(req, st, fl, faulty) ==
  {[result |-> "resolved", store |-> [st EXCEPT ![req.key] = req.str],
    inflight |-> fl, logged |-> {}]}
  \cup (IF faulty
        THEN {[result |-> "rejected", store |-> st, inflight |-> fl,
               logged |-> {"Error writing to storage:"}]}
        ELSE {})

\* A host-provided set: the write is done when the call returns, or the
\* returned promise is still pending, or the call fails (throws, or returns a
\* rejected promise).
NativeSet(req, st, fl, faulty) ==
  {[result |-> "resolved", store |-> [st EXCEPT ![req.key] = req.str],
    inflight |-> fl, logged |-> {}]}
  \cup (IF Len(fl) < MaxInflight
        THEN {[result |-> "pending", store |-> st,
               inflight |-> Append(fl, req),
               logged |-> {}]}
        ELSE {})
  \cup (IF faulty
        THEN {[result |-> "threw", store |-> st, inflight |-> fl, logged |-> {}],
              [result |-> "rejected", store |-> st, inflight |-> fl, logged |-> {}]}
        ELSE {})

\* window.storage.set(req.key, req.str); req.doc records, for the history,
\* the document req.str was made from.
StorageSet(req, st, fl, e) ==
  IF e.adapter = "fallback" THEN FallbackSet(req, st, fl, e.faulty)
  ELSE NativeSet(req, st, fl, e.faulty)

-----------------------------------------------------------------------------
(* Data initialization, lines 86-130 *)

SeedId1 == 1
SeedId2 == 2

SeededResources(now) ==
  <<[id |-> SeedId1,
     title |-> "The Five Dysfunctions of a Team by Patrick Lencioni",
     url |-> "https://www.tablegroup.com/books/dysfunctions",
     category |-> "EI & PS", favorite |-> FALSE, createdAt |-> IsoString(now)],
    [id |-> SeedId2,
     title |-> "Psychological Safety and Learning Behavior in Work Teams",
     url |-> "https://web.mit.edu/curhan/www/docs/Articles/15341_Readings/Group_Performance/Edmondson%20Psychological%20safety.pdf",
     category |-> "EI & PS", favorite |-> FALSE, createdAt |-> IsoString(now)]>>

\* (mutant) the seeded default without its starter resources
SeededDefaultEmpty(now) ==
  [user |-> Null, activeRole |-> "ED", customRoles |-> <<>>, employees |-> <<>>,
   employeeGroups |-> <<>>, todos |-> <<>>, meetings |-> <<>>, contacts |-> <<>>,
   journalEntries |-> <<>>, metrics |-> <<>>, rehearsalReports |-> <<>>,
   productions |-> <<>>, castCrew |-> <<>>, projectEvents |-> <<>>,
   resources |-> <<>>]

\* The object literal of lines 96-129
SeededDefault(now) ==
  [user |-> Null, activeRole |-> "ED", customRoles |-> <<>>, employees |-> <<>>,
   employeeGroups |-> <<>>, todos |-> <<>>, meetings |-> <<>>, contacts |-> <<>>,
   journalEntries |-> <<>>, metrics |-> <<>>, rehearsalReports |-> <<>>,
   productions |-> <<>>, castCrew |-> <<>>, projectEvents |-> <<>>,
   resources |-> SeededResources(now)]

\* (mutant) initializeData whose catch block logs nothing
InitializeDataSilent(got, now) ==
  IF got.result = "resolved" /\ TruthyString(got.value) /\ ~JSONparse(got.value).threw
  THEN [doc |-> JSONparse(got.value).value, logged |-> {}]
  ELSE [doc |-> SeededDefault(now), logged |-> {}]

\* initializeData, given how window.storage.get('ami_data') ended: the
\* document it returns and what it logged.
InitializeData(got, now) ==
  IF got.result = "resolved"
  THEN IF TruthyString(got.value)
       THEN LET parsed == JSONparse(got.value)
            IN IF parsed.threw
               THEN [doc |-> SeededDefault(now), logged |-> {"Error loading data:"}]
               ELSE [doc |-> parsed.value, logged |-> {}]
       ELSE [doc |-> SeededDefault(now), logged |-> {}]
  ELSE [doc |-> SeededDefault(now), logged |-> {"Error loading data:"}]

-----------------------------------------------------------------------------
(* App, lines 185-247 *)

\* (mutant) the save effect calls set a second time when the first call failed
SaveEffectRetry(d, st, fl, e) ==
  IF ~Truthy(d)
  THEN {[saved |-> "none", store |-> st, inflight |-> fl, logged |-> {},
         sets |-> <<>>]}
  ELSE LET req == [key |-> SaveKey, str |-> JSONstringify(d), doc |-> d]
       IN {[saved |-> o.result, store |-> o.store, inflight |-> o.inflight,
            logged |-> IF o.result = "threw"
                       THEN o.logged \cup {"Error saving data:"}
                       ELSE o.logged,
            sets |-> IF o.result \in {"threw", "rejected"}
                     THEN <<[key |-> req.key, str |-> req.str],
                            [key |-> req.key, str |-> req.str]>>
                     ELSE <<[key |-> req.key, str |-> req.str]>>]
           : o \in StorageSet(req, st, fl, e)}

\* The save effect, lines 201-209, run for a new value d of `data`: nothing
\* for a falsy d; otherwise one window.storage.set, whose exception is caught
\* and logged and whose promise is dropped.  `sets` lists the calls of
\* window.storage.set the effect made, each with its key and its value.
SaveEffect(d, st, fl, e) ==
  IF ~Truthy(d)
  THEN {[saved |-> "none", store |-> st, inflight |-> fl, logged |-> {},
         sets |-> <<>>]}
  ELSE LET req == [key |-> SaveKey, str |-> JSONstringify(d), doc |-> d]
       IN {[saved |-> o.result, store |-> o.store, inflight |-> o.inflight,
            logged |-> IF o.result = "threw"
                       THEN o.logged \cup {"Error saving data:"}
                       ELSE o.logged,
            sets |-> <<[key |-> req.key, str |-> req.str]>>]
           : o \in StorageSet(req, st, fl, e)}

\* useState initial values of the view components: App's currentView,
\* ProductionManagement's selectedProduction, GroupsSection's selectedGroup,
\* and the editingId of EmployeeCatalogue and of EmployeesSection (null, or
\* the id being edited, held as [id |-> n])
InitUI ==
  [currentView |-> "dashboard", selectedProduction |-> Null,
   selectedGroup |-> Null, editingId |-> Null, sectionEditingId |-> Null,
   reflectionData |-> <<>>, actionItemsData |-> <<>>]

NoArg == [none |-> TRUE]

\* How a storage set can fail: the call throws, or its promise is rejected
Failed == {"threw", "rejected"}

\* (mutant) a failed save puts the previous document back
SetDataRollback(d, op, arg) ==
  \E o \in SaveEffect(d, store, inflight, env) :
    /\ data' = IF o.saved \in Failed THEN data ELSE d
    /\ store' = o.store
    /\ inflight' = o.inflight
    /\ prev' = data
    /\ last' = [op |-> op, arg |-> arg, setData |-> TRUE, doc |-> d,
                saved |-> o.saved,
                written |-> IF o.saved = "resolved" THEN d ELSE Null,
                logged |-> o.logged,
                afterFailed |-> last.saved \in Failed, sets |-> o.sets]

\* (mutant) the set is issued before the new document replaces the old one,
\* and carries the old one
SetDataSavingFirst(d, op, arg) ==
  \E o \in SaveEffect(data, store, inflight, env) :
    /\ data' = d
    /\ store' = o.store
    /\ inflight' = o.inflight
    /\ prev' = data
    /\ last' = [op |-> op, arg |-> arg, setData |-> TRUE, doc |-> d,
                saved |-> o.saved,
                written |-> IF o.saved = "resolved" THEN data ELSE Null,
                logged |-> o.logged,
                afterFailed |-> last.saved \in Failed, sets |-> o.sets]

\* setData(d) from a handler, then the re-render's save effect
SetData(d, op, arg) ==
  \E o \in SaveEffect(d, store, inflight, env) :
    /\ data' = d
    /\ store' = o.store
    /\ inflight' = o.inflight
    /\ prev' = data
    /\ last' = [op |-> op, arg |-> arg, setData |-> TRUE, doc |-> d,
                saved |-> o.saved,
                written |-> IF o.saved = "resolved" THEN d ELSE Null,
                logged |-> o.logged,
                afterFailed |-> last.saved \in Failed, sets |-> o.sets]

\* A handler that returns without calling setData
NoSetData(op, arg) ==
  /\ UNCHANGED <<data, store, inflight>>
  /\ prev' = data
  /\ last' = [op |-> op, arg |-> arg, setData |-> FALSE, doc |-> Null,
              saved |-> "none", written |-> Null, logged |-> {},
              afterFailed |-> last.saved \in Failed, sets |-> <<>>]

\* (mutant) the load installs the document without the save effect running
LoadDataWithoutSave ==
  /\ loading
  /\ \E got \in StorageGet(LoadKey, store, env) :
       LET r == InitializeData(got, clock)
       IN /\ data' = r.doc
          /\ loading' = FALSE
          /\ prev' = data
          /\ last' = [op |-> "loadData",
                      arg |-> [get |-> got.result, value |-> got.value],
                      setData |-> TRUE, doc |-> r.doc, saved |-> "none",
                      written |-> Null,
                      logged |-> got.logged \cup r.logged,
                      afterFailed |-> last.saved \in Failed, sets |-> <<>>]
  /\ UNCHANGED <<ui, store, env, inflight, clock>>

\* The load effect, lines 192-199: initializeData, setData, setLoading(false),
\* then the save effect of the render that follows.
LoadData ==
  /\ loading
  /\ \E got \in StorageGet(LoadKey, store, env) :
       LET r == InitializeData(got, clock)
       IN \E o \in SaveEffect(r.doc, store, inflight, env) :
            /\ data' = r.doc
            /\ loading' = FALSE
            /\ store' = o.store
            /\ inflight' = o.inflight
            /\ prev' = data
            /\ last' = [op |-> "loadData",
                        arg |-> [get |-> got.result, value |-> got.value],
                        setData |-> TRUE, doc |-> r.doc, saved |-> o.saved,
                        written |-> IF o.saved = "resolved" THEN r.doc ELSE Null,
                        logged |-> got.logged \cup r.logged \cup o.logged,
                        afterFailed |-> last.saved \in Failed, sets |-> o.sets]
  /\ UNCHANGED <<ui, env, clock>>

\* A pending promise of a host-provided set is fulfilled: the write lands
SetResolved ==
  \E i \in 1..Len(inflight) :
    /\ store' = [store EXCEPT ![inflight[i].key] = inflight[i].str]
    /\ inflight' = [k \in 1..(Len(inflight) - 1) |->
                      IF k < i THEN inflight[k] ELSE inflight[k + 1]]
    /\ prev' = data
    /\ last' = [op |-> "setResolved", arg |-> NoArg, setData |-> FALSE,
                doc |-> Null, saved |-> "resolved", written |-> inflight[i].doc,
                logged |-> {},
                afterFailed |-> last.saved \in Failed, sets |-> <<>>]
    /\ UNCHANGED <<data, loading, ui, env, clock>>

\* A pending promise of a host-provided set is rejected: nothing handles it
SetRejected ==
  /\ env.faulty
  /\ \E i \in 1..Len(inflight) :
       /\ inflight' = [k \in 1..(Len(inflight) - 1) |->
                         IF k < i THEN inflight[k] ELSE inflight[k + 1]]
       /\ prev' = data
       /\ last' = [op |-> "setRejected", arg |-> NoArg, setData |-> FALSE,
                   doc |-> Null, saved |-> "rejected", written |-> Null,
                   logged |-> {},
                   afterFailed |-> last.saved \in Failed, sets |-> <<>>]
  /\ UNCHANGED <<data, loading, ui, store, env, clock>>

\* (mutant) a page load whose `data` starts as the document of the last page
ReloadKeepingData ==
  /\ ~loading
  /\ data' = data
  /\ loading' = TRUE
  /\ ui' = InitUI
  /\ prev' = data
  /\ last' = [op |-> "reload", arg |-> NoArg, setData |-> FALSE, doc |-> Null,
              saved |-> "none", written |-> Null, logged |-> {},
              afterFailed |-> last.saved \in Failed, sets |-> <<>>]
  /\ UNCHANGED <<store, env, inflight, clock>>

\* The page is loaded again: root.render(<App />) with fresh component state,
\* lines 30-35 and 186-190, against the same backing store.
Reload ==
  /\ ~loading
  /\ data' = Null
  /\ loading' = TRUE
  /\ ui' = InitUI
  /\ prev' = data
  /\ last' = [op |-> "reload", arg |-> NoArg, setData |-> FALSE, doc |-> Null,
              saved |-> "none", written |-> Null, logged |-> {},
              afterFailed |-> last.saved \in Failed, sets |-> <<>>]
  /\ UNCHANGED <<store, env, inflight, clock>>

\* Time passes
Tick ==
  /\ clock < MaxClock
  /\ clock' = clock + 1
  /\ UNCHANGED <<data, loading, ui, store, env, inflight, last, prev>>

\* The render gates, lines 211-221
\* `data.user` at line 219 needs data to be an object: with data null the
\* render throws a TypeError and no page is shown
LoginPageShown == ~loading /\ data # Null /\ ~Truthy(data.user)
MainShown == ~loading /\ data # Null /\ Truthy(data.user)
RenderThrew == ~loading /\ data = Null

-----------------------------------------------------------------------------
(* LoginPage, lines 253-269 *)

LoginSubmit(name, organization) ==
  /\ LoginPageShown
  /\ IF Trim(name) = ""
     THEN NoSetData("login", [name |-> name])
     ELSE SetData([data EXCEPT !.user =
                     [name |-> Trim(name), organization |-> Trim(organization),
                      createdAt |-> IsoString(clock)]],
                  "login", [name |-> name])
  /\ UNCHANGED <<loading, ui, env, clock>>

-----------------------------------------------------------------------------
(* Header, lines 511-528 *)

ViewOfRole(role) ==
  CASE role = "ED" -> "ed"
    [] role = "Play" -> "play"
    [] role = "Project" -> "project"
    [] OTHER -> "custom"

\* The role buttons the header renders, lines 556-586
RoleButtons == {"ED", "Play", "Project"} \cup {r.id : r \in Range(data.customRoles)}

\* (mutant) a role switch that starts the new role without custom roles
handleRoleSwitchClearing(role) ==
  /\ MainShown
  /\ role \in RoleButtons
  /\ SetData([data EXCEPT !.activeRole = role, !.customRoles = <<>>],
             "handleRoleSwitch", [role |-> role])
  /\ ui' = [ui EXCEPT !.currentView = ViewOfRole(role)]
  /\ UNCHANGED <<loading, env, clock>>

handleRoleSwitch(role) ==
  /\ MainShown
  /\ role \in RoleButtons
  /\ SetData([data EXCEPT !.activeRole = role], "handleRoleSwitch", [role |-> role])
  /\ ui' = [ui EXCEPT !.currentView = ViewOfRole(role)]
  /\ UNCHANGED <<loading, env, clock>>

handleLogout(confirmed) ==
  /\ MainShown
  /\ IF confirmed
     THEN /\ SetData([data EXCEPT !.user = Null], "handleLogout",
                     [confirmed |-> confirmed])
          /\ ui' = [InitUI EXCEPT !.currentView = ui.currentView]
     ELSE /\ NoSetData("handleLogout", [confirmed |-> confirmed])
          /\ ui' = ui
  /\ UNCHANGED <<loading, env, clock>>

-----------------------------------------------------------------------------
(* RoleModal, lines 331-378 *)

\* Object.keys(features), lines 334-340
FeatureKeys == <<"employees", "groups", "todos", "meetings", "contacts">>

\* The feature checkboxes a user is given to tick
FeatureChoices == {{}, {"todos"}, {"employees", "groups"}}

CustomRoleId(now) == "custom_" \o ToString(now)

RoleModal_handleCreate(roleName, features) ==
  /\ MainShown
  /\ Len(data.customRoles) < MaxLen
  /\ LET selectedFeatures == SelectSeq(FeatureKeys, LAMBDA key : key \in features)
         newRole == [id |-> CustomRoleId(clock), name |-> Trim(roleName),
                     type |-> "custom", features |-> selectedFeatures]
         arg == [roleName |-> roleName, features |-> features]
     IN IF Trim(roleName) = "" \/ Len(selectedFeatures) = 0
        THEN NoSetData("RoleModal.handleCreate", arg)
        ELSE SetData([data EXCEPT !.customRoles = Append(@, newRole)],
                     "RoleModal.handleCreate", arg)
  /\ UNCHANGED <<loading, ui, env, clock>>

\* (mutant) the role is removed and activeRole left as it is
RoleModal_handleDeleteNoReset(roleId, confirmed) ==
  /\ MainShown
  /\ roleId \in {r.id : r \in Range(data.customRoles)}
  /\ IF confirmed
     THEN SetData([data EXCEPT
                     !.customRoles = SelectSeq(@, LAMBDA r : r.id # roleId)],
                  "RoleModal.handleDelete", [roleId |-> roleId, confirmed |-> confirmed])
     ELSE NoSetData("RoleModal.handleDelete", [roleId |-> roleId, confirmed |-> confirmed])
  /\ UNCHANGED <<loading, ui, env, clock>>

RoleModal_handleDelete(roleId, confirmed) ==
  /\ MainShown
  /\ roleId \in {r.id : r \in Range(data.customRoles)}
  /\ IF confirmed
     THEN SetData([data EXCEPT
                     !.customRoles = SelectSeq(@, LAMBDA r : r.id # roleId),
                     !.activeRole = IF @ = roleId THEN "ED" ELSE @],
                  "RoleModal.handleDelete", [roleId |-> roleId, confirmed |-> confirmed])
     ELSE NoSetData("RoleModal.handleDelete", [roleId |-> roleId, confirmed |-> confirmed])
  /\ UNCHANGED <<loading, ui, env, clock>>

-----------------------------------------------------------------------------
(* TodoManager, lines 1316-1366, and TodosSection, lines 3058-3101 *)

\* The options of the status select, lines 1467-1470
TodoStatuses == {"Not Started", "In Progress", "Completed", "On Hold"}

TodoForms ==
  {[text |-> t, category |-> "General", priority |-> "Medium", dueDate |-> ""]
     : t \in Texts}

TodoIds == {t.id : t \in Range(data.todos)}

TodoManager_handleSubmit(formData) ==
  /\ MainShown
  /\ Len(data.todos) < MaxLen
  /\ LET newTodo == [id |-> clock, text |-> formData.text,
                     category |-> formData.category, priority |-> formData.priority,
                     dueDate |-> formData.dueDate, status |-> "Not Started",
                     completed |-> FALSE, createdAt |-> IsoString(clock)]
     IN IF Trim(formData.text) = ""
        THEN NoSetData("TodoManager.handleSubmit", formData)
        ELSE SetData([data EXCEPT !.todos = Append(@, newTodo)],
                     "TodoManager.handleSubmit", formData)
  /\ UNCHANGED <<loading, ui, env, clock>>

TodoManager_handleStatusChange(id, status) ==
  /\ MainShown
  /\ id \in TodoIds
  /\ SetData([data EXCEPT !.todos =
                [i \in 1..Len(@) |->
                   IF @[i].id = id
                   THEN [@[i] EXCEPT !.status = status,
                                     !.completed = (status = "Completed")]
                   ELSE @[i]]],
             "TodoManager.handleStatusChange", [id |-> id, status |-> status])
  /\ UNCHANGED <<loading, ui, env, clock>>

TodoManager_handleDelete(id, confirmed) ==
  /\ MainShown
  /\ id \in TodoIds
  /\ IF confirmed
     THEN SetData([data EXCEPT !.todos = SelectSeq(@, LAMBDA todo : todo.id # id)],
                  "TodoManager.handleDelete", [id |-> id, confirmed |-> confirmed])
     ELSE NoSetData("TodoManager.handleDelete", [id |-> id, confirmed |-> confirmed])
  /\ UNCHANGED <<loading, ui, env, clock>>

TodosSection_handleSubmit(todoText) ==
  /\ MainShown
  /\ Len(data.todos) < MaxLen
  /\ LET newTodo == [id |-> clock, text |-> Trim(todoText), category |-> "General",
                     priority |-> "Medium", status |-> "Not Started", dueDate |-> "",
                     completed |-> FALSE, createdAt |-> IsoString(clock)]
     IN IF Trim(todoText) = ""
        THEN NoSetData("TodosSection.handleSubmit", [todoText |-> todoText])
        ELSE SetData([data EXCEPT !.todos = Append(@, newTodo)],
                     "TodosSection.handleSubmit", [todoText |-> todoText])
  /\ UNCHANGED <<loading, ui, env, clock>>

\* (mutant) the checkbox flips `completed` and leaves `status`
TodosSection_toggleCompletedOnly(id) ==
  /\ MainShown
  /\ id \in TodoIds
  /\ SetData([data EXCEPT !.todos =
                [i \in 1..Len(@) |->
                   IF @[i].id = id THEN [@[i] EXCEPT !.completed = ~@] ELSE @[i]]],
             "TodosSection.toggleComplete", [id |-> id])
  /\ UNCHANGED <<loading, ui, env, clock>>

TodosSection_toggleComplete(id) ==
  /\ MainShown
  /\ id \in TodoIds
  /\ SetData([data EXCEPT !.todos =
                [i \in 1..Len(@) |->
                   IF @[i].id = id
                   THEN [@[i] EXCEPT
                           !.completed = ~@,
                           !.status = IF ~data.todos[i].completed
                                      THEN "Completed" ELSE "Not Started"]
                   ELSE @[i]]],
             "TodosSection.toggleComplete", [id |-> id])
  /\ UNCHANGED <<loading, ui, env, clock>>

TodosSection_handleDelete(id, confirmed) ==
  /\ MainShown
  /\ id \in TodoIds
  /\ IF confirmed
     THEN SetData([data EXCEPT !.todos = SelectSeq(@, LAMBDA todo : todo.id # id)],
                  "TodosSection.handleDelete", [id |-> id, confirmed |-> confirmed])
     ELSE NoSetData("TodosSection.handleDelete", [id |-> id, confirmed |-> confirmed])
  /\ UNCHANGED <<loading, ui, env, clock>>

-----------------------------------------------------------------------------
(* ProductionManagement, lines 2097-2188 *)

ProductionForms ==
  {[title |-> t, openingDate |-> "", closingDate |-> "", venue |-> ""] : t \in Texts}

CastCrewForms ==
  {[name |-> n, role |-> "", type |-> ty, contact |-> "", notes |-> ""]
     : n \in Texts, ty \in {"Cast", "Crew"}}

handleCreateProduction(productionForm) ==
  /\ MainShown
  /\ Len(data.productions) < MaxLen
  /\ LET newProduction ==
           [id |-> clock, title |-> productionForm.title,
            openingDate |-> productionForm.openingDate,
            closingDate |-> productionForm.closingDate,
            venue |-> productionForm.venue, createdAt |-> IsoString(clock)]
     IN IF Trim(productionForm.title) = ""
        THEN NoSetData("handleCreateProduction", productionForm)
        ELSE SetData([data EXCEPT !.productions = Append(@, newProduction)],
                     "handleCreateProduction", productionForm)
  /\ UNCHANGED <<loading, ui, env, clock>>

\* onClick={() => setSelectedProduction(production)}, line 2250
selectProduction(production) ==
  /\ MainShown
  /\ production \in Range(data.productions)
  /\ ui' = [ui EXCEPT !.selectedProduction = production]
  /\ NoSetData("setSelectedProduction", [id |-> production.id])
  /\ UNCHANGED <<loading, env, clock>>

\* (mutant) the production is removed and its cast and crew are kept
handleDeleteProductionNoCascade(id, confirmed) ==
  /\ MainShown
  /\ id \in {p.id : p \in Range(data.productions)}
  /\ IF confirmed
     THEN /\ SetData([data EXCEPT
                        !.productions = SelectSeq(@, LAMBDA p : p.id # id)],
                     "handleDeleteProduction", [id |-> id, confirmed |-> confirmed])
          /\ ui' = IF ui.selectedProduction # Null /\ ui.selectedProduction.id = id
                   THEN [ui EXCEPT !.selectedProduction = Null]
                   ELSE ui
     ELSE /\ NoSetData("handleDeleteProduction", [id |-> id, confirmed |-> confirmed])
          /\ ui' = ui
  /\ UNCHANGED <<loading, env, clock>>

handleDeleteProduction(id, confirmed) ==
  /\ MainShown
  /\ id \in {p.id : p \in Range(data.productions)}
  /\ IF confirmed
     THEN /\ SetData([data EXCEPT
                        !.productions = SelectSeq(@, LAMBDA p : p.id # id),
                        !.castCrew = SelectSeq(@, LAMBDA cc : cc.productionId # id)],
                     "handleDeleteProduction", [id |-> id, confirmed |-> confirmed])
          /\ ui' = IF ui.selectedProduction # Null /\ ui.selectedProduction.id = id
                   THEN [ui EXCEPT !.selectedProduction = Null]
                   ELSE ui
     ELSE /\ NoSetData("handleDeleteProduction", [id |-> id, confirmed |-> confirmed])
          /\ ui' = ui
  /\ UNCHANGED <<loading, env, clock>>

handleAddCastCrew(castCrewForm) ==
  /\ MainShown
  /\ Len(data.castCrew) < MaxLen
  /\ IF Trim(castCrewForm.name) = "" \/ ~Truthy(ui.selectedProduction)
     THEN NoSetData("handleAddCastCrew", castCrewForm)
     ELSE LET newMember ==
                [id |-> clock, productionId |-> ui.selectedProduction.id,
                 name |-> castCrewForm.name, role |-> castCrewForm.role,
                 type |-> castCrewForm.type, contact |-> castCrewForm.contact,
                 notes |-> castCrewForm.notes, createdAt |-> IsoString(clock)]
          IN SetData([data EXCEPT !.castCrew = Append(@, newMember)],
                     "handleAddCastCrew", castCrewForm)
  /\ UNCHANGED <<loading, ui, env, clock>>

handleDeleteCastCrew(id, confirmed) ==
  /\ MainShown
  /\ id \in {cc.id : cc \in Range(data.castCrew)}
  /\ IF confirmed
     THEN SetData([data EXCEPT !.castCrew = SelectSeq(@, LAMBDA cc : cc.id # id)],
                  "handleDeleteCastCrew", [id |-> id, confirmed |-> confirmed])
     ELSE NoSetData("handleDeleteCastCrew", [id |-> id, confirmed |-> confirmed])
  /\ UNCHANGED <<loading, ui, env, clock>>

\* The cast/crew list the component renders, lines 2184-2186
productionCastCrew(selectedProduction, castCrew) ==
  IF Truthy(selectedProduction)
  THEN SelectSeq(castCrew, LAMBDA cc : cc.productionId = selectedProduction.id)
  ELSE <<>>

-----------------------------------------------------------------------------
(* Journal, lines 3478-3534 *)

\* The ratings the three range inputs are set to: ei, psychological safety, mood
RatingChoices == {<<3, 3, 3>>, <<4, 5, 3>>}

JournalForms ==
  {[title |-> "", content |-> c, ei_rating |-> r[1], psych_safety_rating |-> r[2],
    mood_rating |-> r[3]] : c \in Texts, r \in RatingChoices}

\* (mutant) the entry is appended without its companion metric
Journal_handleSubmitNoMetric(formData) ==
  /\ MainShown
  /\ Len(data.journalEntries) < MaxLen
  /\ Len(data.metrics) < MaxLen
  /\ LET now == IsoString(clock)
         newEntry == [id |-> clock, title |-> formData.title,
                      content |-> formData.content, ei_rating |-> formData.ei_rating,
                      psych_safety_rating |-> formData.psych_safety_rating,
                      mood_rating |-> formData.mood_rating, date |-> now,
                      role |-> data.activeRole, createdAt |-> now]
     IN IF Trim(formData.content) = ""
        THEN NoSetData("Journal.handleSubmit", formData)
        ELSE SetData([data EXCEPT !.journalEntries = Append(@, newEntry)],
                     "Journal.handleSubmit", formData)
  /\ UNCHANGED <<loading, ui, env, clock>>

Journal_handleSubmit(formData) ==
  /\ MainShown
  /\ Len(data.journalEntries) < MaxLen
  /\ Len(data.metrics) < MaxLen
  /\ LET now == IsoString(clock)
         newEntry == [id |-> clock, title |-> formData.title,
                      content |-> formData.content, ei_rating |-> formData.ei_rating,
                      psych_safety_rating |-> formData.psych_safety_rating,
                      mood_rating |-> formData.mood_rating, date |-> now,
                      role |-> data.activeRole, createdAt |-> now]
         newMetric == [id |-> clock, date |-> now, ei_rating |-> formData.ei_rating,
                       psych_safety_rating |-> formData.psych_safety_rating,
                       mood_rating |-> formData.mood_rating, role |-> data.activeRole]
     IN IF Trim(formData.content) = ""
        THEN NoSetData("Journal.handleSubmit", formData)
        ELSE SetData([data EXCEPT !.journalEntries = Append(@, newEntry),
                                  !.metrics = Append(@, newMetric)],
                     "Journal.handleSubmit", formData)
  /\ UNCHANGED <<loading, ui, env, clock>>

\* (mutant) deleting an entry also deletes the metric saved with it
Journal_handleDeleteWithMetric(id, confirmed) ==
  /\ MainShown
  /\ id \in {entry.id : entry \in Range(data.journalEntries)}
  /\ IF confirmed
     THEN SetData([data EXCEPT !.journalEntries =
                     SelectSeq(@, LAMBDA entry : entry.id # id),
                   !.metrics = SelectSeq(@, LAMBDA m : m.id # id)],
                  "Journal.handleDelete", [id |-> id, confirmed |-> confirmed])
     ELSE NoSetData("Journal.handleDelete", [id |-> id, confirmed |-> confirmed])
  /\ UNCHANGED <<loading, ui, env, clock>>

Journal_handleDelete(id, confirmed) ==
  /\ MainShown
  /\ id \in {entry.id : entry \in Range(data.journalEntries)}
  /\ IF confirmed
     THEN SetData([data EXCEPT !.journalEntries =
                     SelectSeq(@, LAMBDA entry : entry.id # id)],
                  "Journal.handleDelete", [id |-> id, confirmed |-> confirmed])
     ELSE NoSetData("Journal.handleDelete", [id |-> id, confirmed |-> confirmed])
  /\ UNCHANGED <<loading, ui, env, clock>>

-----------------------------------------------------------------------------
(* Dates.  The clock counts half days since 1970-01-01T00:00 local time.     *)

\* What <input type="date"> and <input type="time"> are given
DateInputs == {"", "1970-01-02", "1970-01-03"}
TimeInputs == {"", "12:00"}

DayNumber(date) ==
  CASE date = "1970-01-01" -> 0
    [] date = "1970-01-02" -> 1
    [] date = "1970-01-03" -> 2

HalfDays(time) ==
  CASE time = "00:00" -> 0
    [] time = "12:00" -> 1

\* new Date(str) for a date-time string "YYYY-MM-DDThh:mm": its instant, or
\* an Invalid Date, which compares false with everything.
NewDate(str) ==
  LET dates == {"1970-01-01", "1970-01-02", "1970-01-03"}
      times == {"00:00", "12:00"}
  IN IF \E d \in dates, tm \in times : str = d \o "T" \o tm
     THEN LET pick == CHOOSE x \in dates \X times : str = x[1] \o "T" \o x[2]
          IN [valid |-> TRUE, t |-> 2 * DayNumber(pick[1]) + HalfDays(pick[2])]
     ELSE [valid |-> FALSE, t |-> 0]

\* `${meeting.date}T${meeting.time || '00:00'}`, lines 164 and 903
MeetingDateTime(meeting) ==
  meeting.date \o "T" \o (IF meeting.time # "" THEN meeting.time ELSE "00:00")

\* (mutant) a meeting at the current instant counts as past
isPastMeetingInclusive(meeting, now) ==
  LET d == NewDate(MeetingDateTime(meeting))
  IN d.valid /\ d.t <= now

\* isPastMeeting, lines 163-165, at the instant `now` that new Date() reads
isPastMeeting(meeting, now) ==
  LET d == NewDate(MeetingDateTime(meeting))
  IN d.valid /\ d.t < now

\* Array.prototype.sort by ascending date-time (stable)
RECURSIVE SortByDateTime(_)
SortByDateTime(s) ==
  IF s = <<>> THEN <<>>
  ELSE LET rest == SortByDateTime(SubSeq(s, 1, Len(s) - 1))
           x == s[Len(s)]
           key(m) == NewDate(MeetingDateTime(m)).t
           before == SelectSeq(rest, LAMBDA m : key(m) <= key(x))
           after == SelectSeq(rest, LAMBDA m : key(m) > key(x))
       IN before \o <<x>> \o after

UpcomingLimit == 5

\* Dashboard: upcomingMeetings, lines 901-904
upcomingMeetings(meetings, now) ==
  LET open == SelectSeq(meetings, LAMBDA m : ~isPastMeeting(m, now))
      sorted == SortByDateTime(open)
  IN SubSeq(sorted, 1, IF Len(sorted) < UpcomingLimit THEN Len(sorted)
                       ELSE UpcomingLimit)

-----------------------------------------------------------------------------
(* MeetingPlanning, lines 1524-1588, and MeetingsSection, lines 3189-3231 *)

MeetingForms ==
  {[title |-> t, date |-> d, time |-> tm, attendees |-> "", agenda |-> "",
    preMeetingNotes |-> ""] : t \in Texts, d \in DateInputs, tm \in TimeInputs}

MeetingsSectionForms ==
  {[title |-> t, date |-> d, time |-> tm, notes |-> ""]
     : t \in Texts, d \in DateInputs, tm \in TimeInputs}

MeetingPlanning_handleSubmit(formData) ==
  /\ MainShown
  /\ Len(data.meetings) < MaxLen
  /\ LET newMeeting ==
           [id |-> clock, title |-> formData.title, date |-> formData.date,
            time |-> formData.time, attendees |-> formData.attendees,
            agenda |-> formData.agenda, preMeetingNotes |-> formData.preMeetingNotes,
            postMeetingReflection |-> "", actionItems |-> "", notes |-> "",
            createdAt |-> IsoString(clock)]
     IN IF Trim(formData.title) = "" \/ formData.date = ""
        THEN NoSetData("MeetingPlanning.handleSubmit", formData)
        ELSE SetData([data EXCEPT !.meetings = Append(@, newMeeting)],
                     "MeetingPlanning.handleSubmit", formData)
  /\ UNCHANGED <<loading, ui, env, clock>>

\* The reflection textarea of a meeting is typed into, line 1730:
\* reflectionData, {} at first (line 1535), gets the text under the meeting id
MeetingPlanning_setReflectionData(id, text) ==
  /\ MainShown
  /\ id \in {m.id : m \in Range(data.meetings)}
  /\ ui' = [ui EXCEPT !.reflectionData = (id :> text) @@ @]
  /\ NoSetData("MeetingPlanning.setReflectionData", [id |-> id, text |-> text])
  /\ UNCHANGED <<loading, env, clock>>

\* The action-items textarea of a meeting is typed into, line 1740
MeetingPlanning_setActionItemsData(id, text) ==
  /\ MainShown
  /\ id \in {m.id : m \in Range(data.meetings)}
  /\ ui' = [ui EXCEPT !.actionItemsData = (id :> text) @@ @]
  /\ NoSetData("MeetingPlanning.setActionItemsData", [id |-> id, text |-> text])
  /\ UNCHANGED <<loading, env, clock>>

\* reflectionData[id] || '', line 1573: undefined and '' both give ''
TypedOrEmpty(typed, id) == IF id \in DOMAIN typed THEN typed[id] ELSE ""

\* "Save Updates", lines 1566-1579
MeetingPlanning_handleUpdateReflection(id) ==
  /\ MainShown
  /\ id \in {m.id : m \in Range(data.meetings)}
  /\ SetData([data EXCEPT !.meetings =
                [i \in 1..Len(@) |->
                   IF @[i].id = id
                   THEN [@[i] EXCEPT
                           !.postMeetingReflection =
                              TypedOrEmpty(ui.reflectionData, id),
                           !.actionItems =
                              TypedOrEmpty(ui.actionItemsData, id)]
                   ELSE @[i]]],
             "MeetingPlanning.handleUpdateReflection", [id |-> id])
  /\ UNCHANGED <<loading, ui, env, clock>>

\* The meetings tab is left and opened again, line 1059: MeetingPlanning is
\* mounted anew and its state starts from useState({}), lines 1535-1536
MeetingPlanning_remount ==
  /\ MainShown
  /\ ui' = [ui EXCEPT !.reflectionData = <<>>, !.actionItemsData = <<>>]
  /\ prev' = data
  /\ last' = [op |-> "MeetingPlanning.remount", arg |-> NoArg, setData |-> FALSE,
              doc |-> Null, saved |-> "none", written |-> Null, logged |-> {},
              afterFailed |-> last.saved \in Failed, sets |-> <<>>]
  /\ UNCHANGED <<data, loading, store, env, inflight, clock>>

MeetingPlanning_handleDelete(id, confirmed) ==
  /\ MainShown
  /\ id \in {m.id : m \in Range(data.meetings)}
  /\ IF confirmed
     THEN SetData([data EXCEPT !.meetings =
                     SelectSeq(@, LAMBDA meeting : meeting.id # id)],
                  "MeetingPlanning.handleDelete", [id |-> id, confirmed |-> confirmed])
     ELSE NoSetData("MeetingPlanning.handleDelete", [id |-> id, confirmed |-> confirmed])
  /\ UNCHANGED <<loading, ui, env, clock>>

MeetingsSection_handleSubmit(formData) ==
  /\ MainShown
  /\ Len(data.meetings) < MaxLen
  /\ LET newMeeting ==
           [id |-> clock, title |-> formData.title, date |-> formData.date,
            time |-> formData.time, attendees |-> "", agenda |-> "",
            preMeetingNotes |-> formData.notes, postMeetingReflection |-> "",
            actionItems |-> "", notes |-> formData.notes,
            createdAt |-> IsoString(clock)]
     IN IF Trim(formData.title) = "" \/ formData.date = ""
        THEN NoSetData("MeetingsSection.handleSubmit", formData)
        ELSE SetData([data EXCEPT !.meetings = Append(@, newMeeting)],
                     "MeetingsSection.handleSubmit", formData)
  /\ UNCHANGED <<loading, ui, env, clock>>

MeetingsSection_handleDelete(id, confirmed) ==
  /\ MainShown
  /\ id \in {m.id : m \in Range(data.meetings)}
  /\ IF confirmed
     THEN SetData([data EXCEPT !.meetings = SelectSeq(@, LAMBDA m : m.id # id)],
                  "MeetingsSection.handleDelete", [id |-> id, confirmed |-> confirmed])
     ELSE NoSetData("MeetingsSection.handleDelete", [id |-> id, confirmed |-> confirmed])
  /\ UNCHANGED <<loading, ui, env, clock>>

-----------------------------------------------------------------------------
(* EmployeeCatalogue, lines 1068-1136, and EmployeesSection, lines 2737-2797 *)

EmployeeForms ==
  {[name |-> n, position |-> "", department |-> "", email |-> "", phone |-> "",
    startDate |-> "", notes |-> ""] : n \in Texts}

EmployeesSectionForms ==
  {[name |-> n, role |-> "lead", email |-> "", notes |-> ""] : n \in Texts}

EmployeeCatalogue_handleSubmit(formData) ==
  /\ MainShown
  /\ Truthy(ui.editingId) \/ Len(data.employees) < MaxLen
  /\ IF Trim(formData.name) = ""
     THEN NoSetData("EmployeeCatalogue.handleSubmit", formData) /\ ui' = ui
     ELSE IF Truthy(ui.editingId)
     THEN /\ SetData([data EXCEPT !.employees =
                        [i \in 1..Len(@) |->
                           IF @[i].id = ui.editingId.id
                           THEN [@[i] EXCEPT !.name = formData.name,
                                             !.position = formData.position,
                                             !.department = formData.department,
                                             !.email = formData.email,
                                             !.phone = formData.phone,
                                             !.startDate = formData.startDate,
                                             !.notes = formData.notes]
                           ELSE @[i]]],
                     "EmployeeCatalogue.handleSubmit", formData)
          /\ ui' = [ui EXCEPT !.editingId = Null]
     ELSE /\ SetData([data EXCEPT !.employees =
                        Append(@, [id |-> clock, name |-> formData.name,
                                   position |-> formData.position,
                                   department |-> formData.department,
                                   email |-> formData.email, phone |-> formData.phone,
                                   startDate |-> formData.startDate,
                                   notes |-> formData.notes,
                                   createdAt |-> IsoString(clock)])],
                     "EmployeeCatalogue.handleSubmit", formData)
          /\ ui' = ui
  /\ UNCHANGED <<loading, env, clock>>

\* handleEdit, lines 1116-1127: the form is loaded with the employee
EmployeeCatalogue_handleEdit(employee) ==
  /\ MainShown
  /\ employee \in Range(data.employees)
  /\ ui' = [ui EXCEPT !.editingId = [id |-> employee.id]]
  /\ NoSetData("EmployeeCatalogue.handleEdit", [id |-> employee.id])
  /\ UNCHANGED <<loading, env, clock>>

EmployeeCatalogue_handleDelete(id, confirmed) ==
  /\ MainShown
  /\ id \in {emp.id : emp \in Range(data.employees)}
  /\ IF confirmed
     THEN SetData([data EXCEPT !.employees = SelectSeq(@, LAMBDA emp : emp.id # id)],
                  "EmployeeCatalogue.handleDelete", [id |-> id, confirmed |-> confirmed])
     ELSE NoSetData("EmployeeCatalogue.handleDelete", [id |-> id, confirmed |-> confirmed])
  /\ UNCHANGED <<loading, ui, env, clock>>

EmployeesSection_handleSubmit(formData) ==
  /\ MainShown
  /\ Truthy(ui.sectionEditingId) \/ Len(data.employees) < MaxLen
  /\ IF Trim(formData.name) = ""
     THEN NoSetData("EmployeesSection.handleSubmit", formData) /\ ui' = ui
     ELSE IF Truthy(ui.sectionEditingId)
     THEN /\ SetData([data EXCEPT !.employees =
                        [i \in 1..Len(@) |->
                           IF @[i].id = ui.sectionEditingId.id
                           THEN [(("role" :> formData.role) @@ @[i])
                                   EXCEPT !.name = formData.name,
                                          !.role = formData.role,
                                          !.email = formData.email,
                                          !.notes = formData.notes,
                                          !.position = formData.role]
                           ELSE @[i]]],
                     "EmployeesSection.handleSubmit", formData)
          /\ ui' = [ui EXCEPT !.sectionEditingId = Null]
     ELSE /\ SetData([data EXCEPT !.employees =
                        Append(@, [id |-> clock, name |-> formData.name,
                                   position |-> formData.role,
                                   email |-> formData.email, notes |-> formData.notes,
                                   department |-> "", phone |-> "", startDate |-> "",
                                   createdAt |-> IsoString(clock)])],
                     "EmployeesSection.handleSubmit", formData)
          /\ ui' = ui
  /\ UNCHANGED <<loading, env, clock>>

\* handleEdit, lines 2780-2788
EmployeesSection_handleEdit(employee) ==
  /\ MainShown
  /\ employee \in Range(data.employees)
  /\ ui' = [ui EXCEPT !.sectionEditingId = [id |-> employee.id]]
  /\ NoSetData("EmployeesSection.handleEdit", [id |-> employee.id])
  /\ UNCHANGED <<loading, env, clock>>

EmployeesSection_handleDelete(id, confirmed) ==
  /\ MainShown
  /\ id \in {emp.id : emp \in Range(data.employees)}
  /\ IF confirmed
     THEN SetData([data EXCEPT !.employees = SelectSeq(@, LAMBDA emp : emp.id # id)],
                  "EmployeesSection.handleDelete", [id |-> id, confirmed |-> confirmed])
     ELSE NoSetData("EmployeesSection.handleDelete", [id |-> id, confirmed |-> confirmed])
  /\ UNCHANGED <<loading, ui, env, clock>>

-----------------------------------------------------------------------------
(* GroupsSection, lines 2903-2937, and ContactsSection, lines 3333-3374 *)

handleCreateGroup(groupName) ==
  /\ MainShown
  /\ Len(data.employeeGroups) < MaxLen
  /\ IF Trim(groupName) = ""
     THEN NoSetData("handleCreateGroup", [groupName |-> groupName])
     ELSE SetData([data EXCEPT !.employeeGroups =
                     Append(@, [id |-> clock, name |-> Trim(groupName),
                                members |-> <<>>, createdAt |-> IsoString(clock)])],
                  "handleCreateGroup", [groupName |-> groupName])
  /\ UNCHANGED <<loading, ui, env, clock>>

\* onClick={() => setSelectedGroup(group)}, line 2990
selectGroup(group) ==
  /\ MainShown
  /\ group \in Range(data.employeeGroups)
  /\ ui' = [ui EXCEPT !.selectedGroup = group]
  /\ NoSetData("setSelectedGroup", [id |-> group.id])
  /\ UNCHANGED <<loading, env, clock>>

\* A member checkbox of the selected group is clicked, lines 2939-2956 and
\* 3033: the group as it was when selected is the one updated and written
toggleMember(employeeId) ==
  /\ MainShown
  /\ employeeId \in {emp.id : emp \in Range(data.employees)}
  /\ IF ~Truthy(ui.selectedGroup)
     THEN /\ NoSetData("toggleMember", [employeeId |-> employeeId])
          /\ ui' = ui
     ELSE LET selectedGroup == ui.selectedGroup
              isMember == employeeId \in Range(selectedGroup.members)
              newMembers ==
                IF isMember
                THEN SelectSeq(selectedGroup.members, LAMBDA id : id # employeeId)
                ELSE Append(selectedGroup.members, employeeId)
              updatedGroup == [selectedGroup EXCEPT !.members = newMembers]
          IN /\ ui' = [ui EXCEPT !.selectedGroup = updatedGroup]
             /\ SetData([data EXCEPT !.employeeGroups =
                           [i \in 1..Len(@) |->
                              IF @[i].id = selectedGroup.id
                              THEN updatedGroup ELSE @[i]]],
                        "toggleMember", [employeeId |-> employeeId])
  /\ UNCHANGED <<loading, env, clock>>

handleDeleteGroup(id, confirmed) ==
  /\ MainShown
  /\ id \in {g.id : g \in Range(data.employeeGroups)}
  /\ IF confirmed
     THEN /\ SetData([data EXCEPT !.employeeGroups =
                        SelectSeq(@, LAMBDA g : g.id # id)],
                     "handleDeleteGroup", [id |-> id, confirmed |-> confirmed])
          /\ ui' = IF ui.selectedGroup # Null /\ ui.selectedGroup.id = id
                   THEN [ui EXCEPT !.selectedGroup = Null]
                   ELSE ui
     ELSE /\ NoSetData("handleDeleteGroup", [id |-> id, confirmed |-> confirmed])
          /\ ui' = ui
  /\ UNCHANGED <<loading, env, clock>>

ContactForms ==
  {[name |-> n, organization |-> "", email |-> "", phone |-> "", notes |-> ""]
     : n \in Texts}

ContactsSection_handleSubmit(formData) ==
  /\ MainShown
  /\ Len(data.contacts) < MaxLen
  /\ IF Trim(formData.name) = ""
     THEN NoSetData("ContactsSection.handleSubmit", formData)
     ELSE SetData([data EXCEPT !.contacts =
                     Append(@, [id |-> clock, name |-> formData.name,
                                organization |-> formData.organization,
                                email |-> formData.email, phone |-> formData.phone,
                                notes |-> formData.notes,
                                createdAt |-> IsoString(clock)])],
                  "ContactsSection.handleSubmit", formData)
  /\ UNCHANGED <<loading, ui, env, clock>>

ContactsSection_handleDelete(id, confirmed) ==
  /\ MainShown
  /\ id \in {c.id : c \in Range(data.contacts)}
  /\ IF confirmed
     THEN SetData([data EXCEPT !.contacts = SelectSeq(@, LAMBDA c : c.id # id)],
                  "ContactsSection.handleDelete", [id |-> id, confirmed |-> confirmed])
     ELSE NoSetData("ContactsSection.handleDelete", [id |-> id, confirmed |-> confirmed])
  /\ UNCHANGED <<loading, ui, env, clock>>

-----------------------------------------------------------------------------
(* RehearsalReports, lines 1815-1870; ProjectLeadModule, lines 2427-2488;   *)
(* Resources, lines 3684-3731                                               *)

RehearsalReportForms ==
  {[production |-> t, date |-> d, startTime |-> "", endTime |-> "",
    scenesWorked |-> "", attendees |-> "", absentees |-> "",
    accomplishments |-> "", challenges |-> "", notesForNextTime |-> "",
    safetyIncidents |-> "", morale |-> 3] : t \in Texts, d \in DateInputs}

RehearsalReports_handleSubmit(formData) ==
  /\ MainShown
  /\ Len(data.rehearsalReports) < MaxLen
  /\ IF Trim(formData.production) = "" \/ formData.date = ""
     THEN NoSetData("RehearsalReports.handleSubmit", formData)
     ELSE SetData([data EXCEPT !.rehearsalReports =
                     Append(@, [id |-> clock, production |-> formData.production,
                                date |-> formData.date,
                                startTime |-> formData.startTime,
                                endTime |-> formData.endTime,
                                scenesWorked |-> formData.scenesWorked,
                                attendees |-> formData.attendees,
                                absentees |-> formData.absentees,
                                accomplishments |-> formData.accomplishments,
                                challenges |-> formData.challenges,
                                notesForNextTime |-> formData.notesForNextTime,
                                safetyIncidents |-> formData.safetyIncidents,
                                morale |-> formData.morale,
                                createdAt |-> IsoString(clock)])],
                  "RehearsalReports.handleSubmit", formData)
  /\ UNCHANGED <<loading, ui, env, clock>>

RehearsalReports_handleDelete(id, confirmed) ==
  /\ MainShown
  /\ id \in {report.id : report \in Range(data.rehearsalReports)}
  /\ IF confirmed
     THEN SetData([data EXCEPT !.rehearsalReports =
                     SelectSeq(@, LAMBDA report : report.id # id)],
                  "RehearsalReports.handleDelete", [id |-> id, confirmed |-> confirmed])
     ELSE NoSetData("RehearsalReports.handleDelete", [id |-> id, confirmed |-> confirmed])
  /\ UNCHANGED <<loading, ui, env, clock>>

ProjectForms ==
  {[title |-> t, type |-> "Event", startDate |-> "", endDate |-> "",
    budget |-> "", status |-> "Planning", description |-> "",
    teamMembers |-> "", goals |-> "", milestones |-> ""] : t \in Texts}

ProjectLeadModule_handleSubmit(formData) ==
  /\ MainShown
  /\ Len(data.projectEvents) < MaxLen
  /\ IF Trim(formData.title) = ""
     THEN NoSetData("ProjectLeadModule.handleSubmit", formData)
     ELSE SetData([data EXCEPT !.projectEvents =
                     Append(@, [id |-> clock, title |-> formData.title,
                                type |-> formData.type,
                                startDate |-> formData.startDate,
                                endDate |-> formData.endDate,
                                budget |-> formData.budget,
                                status |-> formData.status,
                                description |-> formData.description,
                                teamMembers |-> formData.teamMembers,
                                goals |-> formData.goals,
                                milestones |-> formData.milestones,
                                createdAt |-> IsoString(clock)])],
                  "ProjectLeadModule.handleSubmit", formData)
  /\ UNCHANGED <<loading, ui, env, clock>>

ProjectLeadModule_handleDelete(id, confirmed) ==
  /\ MainShown
  /\ id \in {project.id : project \in Range(data.projectEvents)}
  /\ IF confirmed
     THEN SetData([data EXCEPT !.projectEvents =
                     SelectSeq(@, LAMBDA project : project.id # id)],
                  "ProjectLeadModule.handleDelete", [id |-> id, confirmed |-> confirmed])
     ELSE NoSetData("ProjectLeadModule.handleDelete", [id |-> id, confirmed |-> confirmed])
  /\ UNCHANGED <<loading, ui, env, clock>>

ResourceForms ==
  {[title |-> t, url |-> u, category |-> "EI & PS"] : t \in Texts, u \in Texts}

\* (mutant) the resource form checks its title and not its URL
Resources_handleSubmitTitleOnly(formData) ==
  /\ MainShown
  /\ Len(data.resources) < Len(SeededResources(clock)) + MaxLen
  /\ IF Trim(formData.title) = ""
     THEN NoSetData("Resources.handleSubmit", formData)
     ELSE SetData([data EXCEPT !.resources =
                     Append(@, [id |-> clock, title |-> formData.title,
                                url |-> formData.url,
                                category |-> formData.category,
                                favorite |-> FALSE,
                                createdAt |-> IsoString(clock)])],
                  "Resources.handleSubmit", formData)
  /\ UNCHANGED <<loading, ui, env, clock>>

Resources_handleSubmit(formData) ==
  /\ MainShown
  /\ Len(data.resources) < Len(SeededResources(clock)) + MaxLen
  /\ IF Trim(formData.title) = "" \/ Trim(formData.url) = ""
     THEN NoSetData("Resources.handleSubmit", formData)
     ELSE SetData([data EXCEPT !.resources =
                     Append(@, [id |-> clock, title |-> formData.title,
                                url |-> formData.url,
                                category |-> formData.category,
                                favorite |-> FALSE,
                                createdAt |-> IsoString(clock)])],
                  "Resources.handleSubmit", formData)
  /\ UNCHANGED <<loading, ui, env, clock>>

\* (mutant) the resource is deleted whatever the answer to the confirmation
Resources_handleDeleteUnasked(id, confirmed) ==
  /\ MainShown
  /\ id \in {resource.id : resource \in Range(data.resources)}
  /\ SetData([data EXCEPT !.resources =
                SelectSeq(@, LAMBDA resource : resource.id # id)],
             "Resources.handleDelete", [id |-> id, confirmed |-> confirmed])
  /\ UNCHANGED <<loading, ui, env, clock>>

Resources_handleDelete(id, confirmed) ==
  /\ MainShown
  /\ id \in {resource.id : resource \in Range(data.resources)}
  /\ IF confirmed
     THEN SetData([data EXCEPT !.resources =
                     SelectSeq(@, LAMBDA resource : resource.id # id)],
                  "Resources.handleDelete", [id |-> id, confirmed |-> confirmed])
     ELSE NoSetData("Resources.handleDelete", [id |-> id, confirmed |-> confirmed])
  /\ UNCHANGED <<loading, ui, env, clock>>

-----------------------------------------------------------------------------
(* Dashboard, lines 876-904: figures derived from the document on each render *)

\* thirtyDaysAgo.setDate(thirtyDaysAgo.getDate() - 30), line 891, in half-days
ThirtyDays == 60

\* new Date(m.date) of a date written by toISOString
DateOfIso(s) == CHOOSE t \in 0..(MaxClock + ThirtyDays + 2) : IsoString(t) = s

roleMetrics(d) == SelectSeq(d.metrics, LAMBDA m : m.role = d.activeRole)

RECURSIVE SumEI(_)
SumEI(ms) ==
  IF ms = <<>> THEN 0 ELSE ms[1].ei_rating + SumEI(Tail(ms))

RECURSIVE SumPS(_)
SumPS(ms) ==
  IF ms = <<>> THEN 0 ELSE ms[1].psych_safety_rating + SumPS(Tail(ms))

\* (mutant) the average is taken over the metrics of the last 30 days
avgEIRolling(d, now) ==
  LET ms == SelectSeq(roleMetrics(d),
                      LAMBDA m : DateOfIso(m.date) >= now - ThirtyDays)
  IN IF Len(ms) > 0 THEN [num |-> SumEI(ms), den |-> Len(ms)]
     ELSE [num |-> 0, den |-> 1]

\* The quotient sum / length as the fraction [num, den]; 0 without metrics.
\* now is the instant of the render.
avgEI(d, now) ==
  IF Len(roleMetrics(d)) > 0
  THEN [num |-> SumEI(roleMetrics(d)), den |-> Len(roleMetrics(d))]
  ELSE [num |-> 0, den |-> 1]

avgPS(d, now) ==
  IF Len(roleMetrics(d)) > 0
  THEN [num |-> SumPS(roleMetrics(d)), den |-> Len(roleMetrics(d))]
  ELSE [num |-> 0, den |-> 1]

\* Array.prototype.sort by date, line 894 (stable insertion)
RECURSIVE SortByDate(_)
SortByDate(s) ==
  IF s = <<>> THEN <<>>
  ELSE LET rest == SortByDate(SubSeq(s, 1, Len(s) - 1))
           x == s[Len(s)]
           before == SelectSeq(rest, LAMBDA m : DateOfIso(m.date) <= DateOfIso(x.date))
           after == SelectSeq(rest, LAMBDA m : DateOfIso(m.date) > DateOfIso(x.date))
       IN before \o <<x>> \o after

\* The points of the 30-Day Trends chart, lines 887-899; the label of a point
\* is the calendar day of its date
last30Days(d, now) ==
  LET recent == SelectSeq(roleMetrics(d),
                          LAMBDA m : DateOfIso(m.date) >= now - ThirtyDays)
      sorted == SortByDate(recent)
  IN [i \in 1..Len(sorted) |->
        [date |-> DateOfIso(sorted[i].date) \div 2,
         EI |-> sorted[i].ei_rating, PS |-> sorted[i].psych_safety_rating]]

\* More than thirty days pass at once
MonthPasses ==
  /\ clock <= MaxClock
  /\ clock' = clock + ThirtyDays + 2
  /\ UNCHANGED <<data, loading, ui, store, env, inflight, last, prev>>

-----------------------------------------------------------------------------
(* Specifications *)

FirstNow == SeedId2 + 1

\* What the store can hold when the page is first loaded: nothing, the empty
\* string, or a string that is not JSON.  (A stored document is reached by
\* Reload.)
FirstStoreValues == {Absent, EmptyString, Garbage}

\* The JSON text `null`, which JSON.parse accepts
StoredNull == [kind |-> "text", j |-> [t |-> "null"]]

InitApp ==
  /\ data = Null
  /\ loading = TRUE
  /\ ui = InitUI
  /\ inflight = <<>>
  /\ clock = FirstNow
  /\ prev = Null
  /\ last = [op |-> "mount", arg |-> NoArg, setData |-> FALSE, doc |-> Null,
             saved |-> "none", written |-> Null, logged |-> {},
             afterFailed |-> FALSE, sets |-> <<>>]

\* Any adapter, on a medium that may or may not fail
Init ==
  /\ InitApp
  /\ env \in [adapter : Adapters, faulty : BOOLEAN]
  /\ store \in [StoreKeys -> FirstStoreValues]

\* The localStorage adapter on a medium that works, first run
InitFirstRun ==
  /\ InitApp
  /\ env = [adapter |-> "fallback", faulty |-> FALSE]
  /\ store = [k \in StoreKeys |-> Absent]

Login == \E name \in Texts : LoginSubmit(name, "")
Logout == \E confirmed \in BOOLEAN : handleLogout(confirmed)
RoleSwitch == MainShown /\ \E role \in RoleButtons : handleRoleSwitch(role)
CreateRole ==
  \E roleName \in Texts, features \in FeatureChoices :
    RoleModal_handleCreate(roleName, features)
DeleteRole ==
  /\ MainShown
  /\ \E r \in Range(data.customRoles), confirmed \in BOOLEAN :
       RoleModal_handleDelete(r.id, confirmed)

\* Persistence: load, mutate, save, reload
Next ==
  \/ LoadData
  \/ SetResolved
  \/ SetRejected
  \/ Reload
  \/ Login
  \/ Logout
  \/ RoleSwitch

Spec == Init /\ [][Next]_vars

\* To-dos, first run
NextTodos ==
  \/ LoadData
  \/ Login
  \/ Tick
  \/ \E formData \in TodoForms : TodoManager_handleSubmit(formData)
  \/ \E todoText \in Texts : TodosSection_handleSubmit(todoText)
  \/ MainShown /\ \E id \in TodoIds, status \in TodoStatuses :
                    TodoManager_handleStatusChange(id, status)
  \/ MainShown /\ \E id \in TodoIds : TodosSection_toggleComplete(id)
  \/ MainShown /\ \E id \in TodoIds, confirmed \in BOOLEAN :
                    TodoManager_handleDelete(id, confirmed)
  \/ MainShown /\ \E id \in TodoIds, confirmed \in BOOLEAN :
                    TodosSection_handleDelete(id, confirmed)

SpecTodos == InitFirstRun /\ [][NextTodos]_vars

\* Productions and their cast and crew, first run
NextProductions ==
  \/ LoadData
  \/ Login
  \/ Tick
  \/ \E productionForm \in ProductionForms : handleCreateProduction(productionForm)
  \/ MainShown /\ \E p \in Range(data.productions) : selectProduction(p)
  \/ \E castCrewForm \in CastCrewForms : handleAddCastCrew(castCrewForm)
  \/ MainShown /\ \E cc \in Range(data.castCrew), confirmed \in BOOLEAN :
                    handleDeleteCastCrew(cc.id, confirmed)
  \/ MainShown /\ \E p \in Range(data.productions), confirmed \in BOOLEAN :
                    handleDeleteProduction(p.id, confirmed)

SpecProductions == InitFirstRun /\ [][NextProductions]_vars

\* Cascading deletions, first run: a few productions, cast and custom roles
CascadeCount(d) == Len(d.customRoles) + Len(d.productions) + Len(d.castCrew)

NextCascade ==
  \/ LoadData
  \/ Login
  \/ Tick
  \/ MainShown /\ \E role \in RoleButtons \ {"Play", "Project"} :
                    handleRoleSwitch(role)
  \/ /\ MainShown /\ CascadeCount(data) < MaxRecords + 3
     /\ RoleModal_handleCreate(" a ", {"todos"})
  \/ DeleteRole
  \/ /\ MainShown /\ CascadeCount(data) < MaxRecords + 3
     /\ handleCreateProduction([title |-> " a ", openingDate |-> "",
                                closingDate |-> "", venue |-> ""])
  \/ MainShown /\ \E p \in Range(data.productions) : selectProduction(p)
  \/ /\ MainShown /\ CascadeCount(data) < MaxRecords + 3
     /\ handleAddCastCrew([name |-> " a ", role |-> "", type |-> "Cast",
                           contact |-> "", notes |-> ""])
  \/ MainShown /\ \E p \in Range(data.productions), confirmed \in BOOLEAN :
                    handleDeleteProduction(p.id, confirmed)

SpecCascade == InitFirstRun /\ [][NextCascade]_vars

\* Dashboard figures over journal saves made a month apart, first run
NextDashboard ==
  \/ LoadData
  \/ Login
  \/ Tick
  \/ MonthPasses
  \/ \E role \in {"ED", "Play"} : handleRoleSwitch(role)
  \/ \E formData \in {f \in JournalForms : f.content = " a "} :
       Journal_handleSubmit(formData)

SpecDashboard == InitFirstRun /\ [][NextDashboard]_vars

\* The page is loaded over a stored value that is no document, the JSON text
\* `null` included, on the localStorage adapter
InitStored ==
  /\ InitApp
  /\ env = [adapter |-> "fallback", faulty |-> FALSE]
  /\ store \in [StoreKeys -> FirstStoreValues \cup {StoredNull}]

NextStored ==
  \/ LoadData
  \/ Reload
  \/ Tick
  \/ Login
  \/ Logout
  \/ RoleSwitch

SpecStored == InitStored /\ [][NextStored]_vars

\* Post-meeting reflections and action items, first run
NextReflection ==
  \/ LoadData
  \/ Login
  \/ Tick
  \/ MeetingPlanning_handleSubmit([title |-> " a ", date |-> "1970-01-02",
                                   time |-> "", attendees |-> "", agenda |-> "",
                                   preMeetingNotes |-> ""])
  \/ MainShown /\ \E m \in Range(data.meetings), text \in {"", " a "} :
                    MeetingPlanning_setReflectionData(m.id, text)
  \/ MainShown /\ \E m \in Range(data.meetings), text \in {"", " "} :
                    MeetingPlanning_setActionItemsData(m.id, text)
  \/ MainShown /\ \E m \in Range(data.meetings) :
                    MeetingPlanning_handleUpdateReflection(m.id)
  \/ MeetingPlanning_remount

SpecReflection == InitFirstRun /\ [][NextReflection]_vars

\* Groups and their members, first run
NextGroups ==
  \/ LoadData
  \/ Login
  \/ Tick
  \/ EmployeesSection_handleSubmit([name |-> " a ", role |-> "lead",
                                    email |-> "", notes |-> ""])
  \/ MainShown /\ \E emp \in Range(data.employees) :
                    EmployeesSection_handleDelete(emp.id, TRUE)
  \/ MainShown /\ \E emp \in Range(data.employees) :
                    EmployeeCatalogue_handleDelete(emp.id, TRUE)
  \/ handleCreateGroup(" a ")
  \/ MainShown /\ \E g \in Range(data.employeeGroups) : selectGroup(g)
  \/ MainShown /\ \E g \in Range(data.employeeGroups) : handleDeleteGroup(g.id, TRUE)
  \/ MainShown /\ \E emp \in Range(data.employees) : toggleMember(emp.id)

SpecGroups == InitFirstRun /\ [][NextGroups]_vars

\* Roles, first run
NextRoles ==
  \/ LoadData
  \/ Login
  \/ Tick
  \/ RoleSwitch
  \/ CreateRole
  \/ DeleteRole

SpecRoles == InitFirstRun /\ [][NextRoles]_vars

\* The journal, first run, written under the ED and Play roles
NextJournal ==
  \/ LoadData
  \/ Login
  \/ Tick
  \/ \E role \in {"ED", "Play"} : handleRoleSwitch(role)
  \/ \E formData \in JournalForms : Journal_handleSubmit(formData)
  \/ MainShown /\ \E entry \in Range(data.journalEntries), confirmed \in BOOLEAN :
                    Journal_handleDelete(entry.id, confirmed)

SpecJournal == InitFirstRun /\ [][NextJournal]_vars

\* The records of d that a form created: every collection but the seeded
\* resources, and but cast/crew and metrics, which follow their production
\* and their journal entry
CreatedCount(d) ==
  Len(d.customRoles) + Len(d.employees) + Len(d.employeeGroups) + Len(d.todos)
  + Len(d.meetings) + Len(d.contacts) + Len(d.journalEntries)
  + Len(d.rehearsalReports) + Len(d.productions) + Len(d.projectEvents)
  + Len(SelectSeq(d.resources, LAMBDA r : r.id \notin {SeedId1, SeedId2}))

\* A create form is submitted, its required text fields drawn from texts
\* and its required date from dates
CreateRecord(texts, dates) ==
  \/ \E roleName \in texts, features \in FeatureChoices :
       RoleModal_handleCreate(roleName, features)
  \/ \E formData \in {f \in EmployeeForms : f.name \in texts} :
       EmployeeCatalogue_handleSubmit(formData)
  \/ \E formData \in {f \in EmployeesSectionForms : f.name \in texts} :
       EmployeesSection_handleSubmit(formData)
  \/ \E groupName \in texts : handleCreateGroup(groupName)
  \/ \E formData \in {f \in ContactForms : f.name \in texts} :
       ContactsSection_handleSubmit(formData)
  \/ \E formData \in {f \in TodoForms : f.text \in texts} :
       TodoManager_handleSubmit(formData)
  \/ \E todoText \in texts : TodosSection_handleSubmit(todoText)
  \/ \E formData \in {f \in MeetingForms :
                        f.title \in texts /\ f.date \in dates /\ f.time = ""} :
       MeetingPlanning_handleSubmit(formData)
  \/ \E formData \in {f \in MeetingsSectionForms :
                        f.title \in texts /\ f.date \in dates /\ f.time = ""} :
       MeetingsSection_handleSubmit(formData)
  \/ \E formData \in {f \in RehearsalReportForms :
                        f.production \in texts /\ f.date \in dates} :
       RehearsalReports_handleSubmit(formData)
  \/ \E productionForm \in {f \in ProductionForms : f.title \in texts} :
       handleCreateProduction(productionForm)
  \/ \E formData \in {f \in ProjectForms : f.title \in texts} :
       ProjectLeadModule_handleSubmit(formData)
  \/ \E formData \in {f \in JournalForms : f.content \in texts} :
       Journal_handleSubmit(formData)
  \/ \E formData \in {f \in ResourceForms : f.title \in texts /\ f.url \in texts} :
       Resources_handleSubmit(formData)

DeleteRecord ==
  \E confirmed \in BOOLEAN :
    \/ \E r \in Range(data.customRoles) : RoleModal_handleDelete(r.id, confirmed)
    \/ \E emp \in Range(data.employees) :
         EmployeeCatalogue_handleDelete(emp.id, confirmed)
    \/ \E emp \in Range(data.employees) :
         EmployeesSection_handleDelete(emp.id, confirmed)
    \/ \E g \in Range(data.employeeGroups) : handleDeleteGroup(g.id, confirmed)
    \/ \E c \in Range(data.contacts) : ContactsSection_handleDelete(c.id, confirmed)
    \/ \E t \in Range(data.todos) : TodoManager_handleDelete(t.id, confirmed)
    \/ \E t \in Range(data.todos) : TodosSection_handleDelete(t.id, confirmed)
    \/ \E m \in Range(data.meetings) : MeetingPlanning_handleDelete(m.id, confirmed)
    \/ \E m \in Range(data.meetings) : MeetingsSection_handleDelete(m.id, confirmed)
    \/ \E report \in Range(data.rehearsalReports) :
         RehearsalReports_handleDelete(report.id, confirmed)
    \/ \E p \in Range(data.productions) : handleDeleteProduction(p.id, confirmed)
    \/ \E cc \in Range(data.castCrew) : handleDeleteCastCrew(cc.id, confirmed)
    \/ \E project \in Range(data.projectEvents) :
         ProjectLeadModule_handleDelete(project.id, confirmed)
    \/ \E entry \in Range(data.journalEntries) :
         Journal_handleDelete(entry.id, confirmed)
    \/ \E resource \in Range(data.resources) :
         Resources_handleDelete(resource.id, confirmed)

\* Every create form, first run, at one instant
NextForms ==
  \/ LoadData
  \/ Login
  \/ MainShown /\ CreatedCount(data) <= MaxRecords
       /\ CreateRecord(Texts, {"", "1970-01-02"})
  \/ MainShown /\ \E p \in Range(data.productions) : selectProduction(p)
  \/ \E castCrewForm \in CastCrewForms : handleAddCastCrew(castCrewForm)
  \/ MainShown /\ \E emp \in Range(data.employees) : EmployeeCatalogue_handleEdit(emp)
  \/ MainShown /\ \E emp \in Range(data.employees) : EmployeesSection_handleEdit(emp)

SpecForms == InitFirstRun /\ [][NextForms]_vars

\* Every delete button and logout, first run, at one instant, on records
\* made from well-filled forms
NextDeletes ==
  \/ LoadData
  \/ \E name \in {" a "} : LoginSubmit(name, "")
  \/ Logout
  \/ MainShown /\ CreatedCount(data) < MaxRecords
       /\ CreateRecord({" a "}, {"1970-01-02"})
  \/ MainShown /\ \E p \in Range(data.productions) : selectProduction(p)
  \/ \E castCrewForm \in {f \in CastCrewForms : f.name = " a " /\ f.type = "Cast"} :
       handleAddCastCrew(castCrewForm)
  \/ MainShown /\ \E g \in Range(data.employeeGroups) : selectGroup(g)
  \/ MainShown /\ DeleteRecord

SpecDeletes == InitFirstRun /\ [][NextDeletes]_vars

\* Meetings, first run
NextMeetings ==
  \/ LoadData
  \/ Login
  \/ Tick
  \/ \E formData \in MeetingForms : MeetingPlanning_handleSubmit(formData)
  \/ \E formData \in MeetingsSectionForms : MeetingsSection_handleSubmit(formData)
  \/ MainShown /\ \E m \in Range(data.meetings), confirmed \in BOOLEAN :
                    MeetingPlanning_handleDelete(m.id, confirmed)
  \/ MainShown /\ \E m \in Range(data.meetings), confirmed \in BOOLEAN :
                    MeetingsSection_handleDelete(m.id, confirmed)

SpecMeetings == InitFirstRun /\ [][NextMeetings]_vars

-----------------------------------------------------------------------------
(* Properties *)

\* The seeded default document, property by property
IsSeededDefault(d) ==
  /\ d.user = Null
  /\ d.activeRole = "ED"
  /\ d.customRoles = <<>>
  /\ d.employees = <<>> /\ d.employeeGroups = <<>> /\ d.todos = <<>>
  /\ d.meetings = <<>> /\ d.contacts = <<>> /\ d.journalEntries = <<>>
  /\ d.metrics = <<>> /\ d.rehearsalReports = <<>> /\ d.productions = <<>>
  /\ d.castCrew = <<>> /\ d.projectEvents = <<>>
  /\ Len(d.resources) = 2
  /\ d.resources[1].id = 1 /\ d.resources[2].id = 2
  /\ \A i \in 1..2 : d.resources[i].category = "EI & PS" /\ d.resources[i].favorite = FALSE

\* What a fresh initializeData returns when its get of the store succeeds
FreshInitialize ==
  {InitializeData(got, clock).doc :
     got \in {g \in StorageGet(LoadKey, store, [env EXCEPT !.faulty = FALSE]) :
                g.result = "resolved"}}

\* C1: round-trip persistence.  Whenever the storage set of a document
\* succeeds (at once, or when its promise is fulfilled), a fresh
\* initializeData against the store returns a document equal to it.
C1_RoundTrip ==
  last.written # Null => FreshInitialize = {last.written}

\* C1 witness: a login was installed and its set succeeded
C1_Witness ==
  /\ last.op = "login" /\ last.setData /\ last.written # Null
  /\ data.user # Null

\* C2: initializing against an absent or empty store yields the seeded default
C2_SeededDefault ==
  (/\ last.op = "loadData"
   /\ last.arg.get = "resolved"
   /\ last.arg.value.kind \in {"absent", "empty"})
  => IsSeededDefault(data)

\* C2 witness: a load has found the store without an entry
C2_Witness ==
  /\ last.op = "loadData" /\ last.arg.get = "resolved"
  /\ last.arg.value.kind = "absent"
  /\ ~loading

\* C8: a load whose get rejects or throws, or whose value cannot be parsed,
\* still completes with the seeded default, logs the error and ends the
\* loading state.
C8_LoadFailure ==
  (/\ last.op = "loadData"
   /\ \/ last.arg.get \in {"rejected", "threw"}
      \/ last.arg.value.kind = "garbage")
  => /\ IsSeededDefault(data)
     /\ "Error loading data:" \in last.logged
     /\ ~loading

\* C8 witness: a load has met a value that is not JSON
C8_Witness ==
  /\ last.op = "loadData" /\ last.arg.get = "resolved"
  /\ last.arg.value.kind = "garbage"
  /\ ~loading

\* The document a mutation of the persistence specification installs, from
\* the document it is applied to
C9_Expected(op, arg, base, now) ==
  CASE op = "login" ->
         [base EXCEPT !.user = [name |-> Trim(arg.name), organization |-> "",
                                createdAt |-> IsoString(now)]]
    [] op = "handleRoleSwitch" -> [base EXCEPT !.activeRole = arg.role]
    [] op = "handleLogout" -> [base EXCEPT !.user = Null]

\* C9: a failed storage set never changes the in-memory document.  After a
\* mutation whose set throws or is rejected, `data` is the document given to
\* setData; a promise rejected later leaves `data` as it is; and the next
\* mutation is applied to that document as to any other.
C9_NoRollback ==
  /\ (last.setData /\ last.saved \in Failed) => data = last.doc
  /\ last.op = "setRejected" => data = prev
  /\ (last.afterFailed /\ last.setData /\ last.op # "loadData")
       => data = C9_Expected(last.op, last.arg, prev, clock)

\* C9 witness: a role switch right after a login whose save failed
C9_Witness ==
  /\ last.afterFailed /\ last.op = "handleRoleSwitch"
  /\ data.user # Null /\ data.activeRole = "Play"

\* C10: every failed storage set is reported: whenever the set issued after
\* a mutation throws or its promise is rejected, an error is logged for it.
C10_EveryFailureLogged ==
  (last.setData /\ last.op # "loadData" /\ last.saved \in Failed)
    => last.logged \cap {"Error saving data:", "Error writing to storage:"} # {}

\* C3: in every document reached by to-do operations, a to-do is completed
\* if and only if its status is "Completed".
C3_CompletedIffStatus ==
  data # Null =>
    \A i \in 1..Len(data.todos) :
      data.todos[i].completed <=> (data.todos[i].status = "Completed")

\* C3 witness: a checkbox toggle has completed a to-do while another is on hold
C3_Witness ==
  /\ last.op = "TodosSection.toggleComplete"
  /\ \E i, k \in 1..Len(data.todos) :
       /\ data.todos[i].completed /\ data.todos[i].status = "Completed"
       /\ data.todos[k].status = "On Hold"

\* The sequence s without its i-th element
RemoveAt(s, i) == [k \in 1..(Len(s) - 1) |-> IF k < i THEN s[k] ELSE s[k + 1]]

\* C4: a confirmed deletion of a production removes that production and
\* exactly the cast/crew records whose productionId is its id; every other
\* production and every other cast/crew record is left as it was, and the
\* cast/crew read for its id is empty.
C4_DeleteProduction ==
  (last.op = "handleDeleteProduction" /\ last.setData) =>
    LET id == last.arg.id
    IN /\ \E i \in 1..Len(prev.productions) :
            /\ prev.productions[i].id = id
            /\ data.productions = RemoveAt(prev.productions, i)
       /\ data.castCrew = SelectSeq(prev.castCrew, LAMBDA cc : cc.productionId # id)
       /\ productionCastCrew([id |-> id], data.castCrew) = <<>>

\* C5: a confirmed deletion of a custom role removes it, sets activeRole to
\* "ED" when it was the active role, and leaves activeRole alone otherwise.
C5_DeleteRole ==
  (last.op = "RoleModal.handleDelete" /\ last.setData) =>
    LET roleId == last.arg.roleId
    IN /\ prev.activeRole = roleId => data.activeRole = "ED"
       /\ prev.activeRole # roleId => data.activeRole = prev.activeRole
       /\ \A i \in 1..Len(data.customRoles) : data.customRoles[i].id # roleId

\* C5 witness: the active custom role has been deleted
C5_Witness ==
  /\ last.op = "RoleModal.handleDelete" /\ last.setData
  /\ prev.activeRole = last.arg.roleId
  /\ data.activeRole = "ED"

\* What C6 says a journal save does
C6_Appended ==
  LET n == Len(prev.journalEntries)
      k == Len(prev.metrics)
  IN /\ Len(data.journalEntries) = n + 1
     /\ SubSeq(data.journalEntries, 1, n) = prev.journalEntries
     /\ Len(data.metrics) = k + 1
     /\ SubSeq(data.metrics, 1, k) = prev.metrics
     /\ LET e == data.journalEntries[n + 1]
            m == data.metrics[k + 1]
        IN /\ e.ei_rating = last.arg.ei_rating /\ m.ei_rating = e.ei_rating
           /\ e.psych_safety_rating = last.arg.psych_safety_rating
           /\ m.psych_safety_rating = e.psych_safety_rating
           /\ e.mood_rating = last.arg.mood_rating /\ m.mood_rating = e.mood_rating
           /\ m.date = e.date
           /\ e.role = prev.activeRole /\ m.role = prev.activeRole
     /\ [data EXCEPT !.journalEntries = prev.journalEntries,
                     !.metrics = prev.metrics] = prev

\* C6 as stated: saving a journal entry whose content is not the empty string
\* appends one entry and one metric with the same ratings, date and role.
C6_Original ==
  (last.op = "Journal.handleSubmit" /\ last.arg.content # "") => C6_Appended

\* C6 amended: saving a journal entry whose content is not empty once trimmed
\* of white space appends one entry and one metric with the same ratings, date
\* and role, and changes nothing else.
C6_JournalSave ==
  (last.op = "Journal.handleSubmit" /\ Trim(last.arg.content) # "") => C6_Appended

\* C6 witness: an entry rated (4, 5, 3) has been saved under the Play role
C6_Witness ==
  /\ last.op = "Journal.handleSubmit" /\ last.setData
  /\ last.arg.ei_rating = 4 /\ last.arg.psych_safety_rating = 5
  /\ last.arg.mood_rating = 3
  /\ data.activeRole = "Play"
  /\ Len(data.metrics) = 2

\* The instant of a meeting: its day, at midnight when it has no time
C7_Instant(m) == 2 * DayNumber(m.date) + (IF m.time = "" THEN 0 ELSE HalfDays(m.time))

\* C7: a meeting is past exactly when its date and time (midnight when the
\* time is empty) are strictly before the current instant; the upcoming view
\* holds only meetings that are not past, and of one meeting before now and
\* one after it lists only the later.
C7_PastAndUpcoming ==
  data # Null =>
    LET ms == data.meetings
        up == upcomingMeetings(ms, clock)
    IN /\ \A i \in 1..Len(ms) :
            isPastMeeting(ms[i], clock) <=> (C7_Instant(ms[i]) < clock)
       /\ \A i \in 1..Len(up) : C7_Instant(up[i]) >= clock
       /\ \A i, k \in 1..Len(ms) :
            (Len(ms) = 2 /\ C7_Instant(ms[i]) < clock /\ C7_Instant(ms[k]) > clock)
              => up = <<ms[k]>>

\* C7 witness: one meeting before now and one after, and one listed
C7_Witness ==
  /\ data # Null /\ Len(data.meetings) = 2
  /\ C7_Instant(data.meetings[1]) < clock
  /\ C7_Instant(data.meetings[2]) > clock
  /\ Len(upcomingMeetings(data.meetings, clock)) = 1

\* C11: every accepted setData causes exactly one storage set, under the key
\* ami_data and with the serialization of the whole new document as its
\* value; a step that installs no document (a rejected handler, a settled or
\* failed promise) issues no set, so a failed set is never retried.
C11_OneSetPerMutation ==
  /\ last.setData =>
       last.sets = <<[key |-> "ami_data", str |-> JSONstringify(data)]>>
  /\ ~last.setData => last.sets = <<>>

\* C11 witness: a mutation by a logged-in user has had its one set fail
C11_Witness ==
  /\ last.op = "handleRoleSwitch" /\ last.setData
  /\ last.saved \in Failed
  /\ Len(last.sets) = 1

\* The collections of the document
CollectionKeys ==
  {"customRoles", "employees", "employeeGroups", "todos", "meetings",
   "contacts", "journalEntries", "metrics", "rehearsalReports", "productions",
   "castCrew", "projectEvents", "resources"}

\* C12: in every reachable document the identifiers of the records of a
\* collection are pairwise different.
C12_UniqueIds ==
  data # Null =>
    \A c \in CollectionKeys :
      \A i, k \in 1..Len(data[c]) : data[c][i].id = data[c][k].id => i = k

\* C13: every cast/crew record's productionId is the id of a production that
\* is in productions.
C13_CastCrewReferences ==
  data # Null =>
    \A i \in 1..Len(data.castCrew) :
      \E k \in 1..Len(data.productions) :
        data.productions[k].id = data.castCrew[i].productionId

\* C13 witness: of two productions with one member each, one has been deleted
C13_Witness ==
  /\ last.op = "handleDeleteProduction" /\ last.setData
  /\ Len(prev.castCrew) = 2 /\ Len(data.castCrew) = 1
  /\ Len(data.productions) = 1

\* A create form has been submitted with a required field empty or blank
C14_RequiredEmpty ==
  \/ last.op = "login" /\ Trim(last.arg.name) = ""
  \/ last.op = "RoleModal.handleCreate"
       /\ (Trim(last.arg.roleName) = "" \/ last.arg.features = {})
  \/ last.op \in {"EmployeeCatalogue.handleSubmit", "EmployeesSection.handleSubmit",
                  "ContactsSection.handleSubmit", "handleAddCastCrew"}
       /\ Trim(last.arg.name) = ""
  \/ last.op = "handleCreateGroup" /\ Trim(last.arg.groupName) = ""
  \/ last.op = "TodoManager.handleSubmit" /\ Trim(last.arg.text) = ""
  \/ last.op = "TodosSection.handleSubmit" /\ Trim(last.arg.todoText) = ""
  \/ last.op \in {"MeetingPlanning.handleSubmit", "MeetingsSection.handleSubmit"}
       /\ (Trim(last.arg.title) = "" \/ last.arg.date = "")
  \/ last.op = "RehearsalReports.handleSubmit"
       /\ (Trim(last.arg.production) = "" \/ last.arg.date = "")
  \/ last.op \in {"handleCreateProduction", "ProjectLeadModule.handleSubmit"}
       /\ Trim(last.arg.title) = ""
  \/ last.op = "Journal.handleSubmit" /\ Trim(last.arg.content) = ""
  \/ last.op = "Resources.handleSubmit"
       /\ (Trim(last.arg.title) = "" \/ Trim(last.arg.url) = "")

\* C14: a create form submitted with a required field empty or blank calls
\* no setData: the document is unchanged and no storage set is issued.
C14_ValidationFailure ==
  C14_RequiredEmpty => (~last.setData /\ data = prev /\ last.sets = <<>>)

\* C14 witness: the resource form was submitted with a title and a blank URL
C14_Witness ==
  /\ last.op = "Resources.handleSubmit"
  /\ Trim(last.arg.title) # "" /\ last.arg.url = " "
  /\ data = prev

\* The handlers that ask window.confirm before they act
C15_ConfirmedOps ==
  {"RoleModal.handleDelete", "EmployeeCatalogue.handleDelete",
   "EmployeesSection.handleDelete", "handleDeleteGroup",
   "ContactsSection.handleDelete", "TodoManager.handleDelete",
   "TodosSection.handleDelete", "MeetingPlanning.handleDelete",
   "MeetingsSection.handleDelete", "RehearsalReports.handleDelete",
   "handleDeleteProduction", "handleDeleteCastCrew",
   "ProjectLeadModule.handleDelete", "Journal.handleDelete",
   "Resources.handleDelete", "handleLogout"}

\* C15: a deletion or a logout changes the document only when the user has
\* confirmed; when the confirmation is declined the document is unchanged and
\* no storage set is issued.
C15_ConfirmationGate ==
  last.op \in C15_ConfirmedOps =>
    /\ last.setData => last.arg.confirmed
    /\ ~last.arg.confirmed => (data = prev /\ last.sets = <<>>)

\* C15 witness: the deletion of a seeded resource has been declined
C15_Witness ==
  /\ last.op = "Resources.handleDelete" /\ ~last.arg.confirmed
  /\ Len(data.resources) = 2

\* C16: activeRole is "ED", "Play", "Project" or the id of a custom role that
\* is in customRoles.
C16_ActiveRoleValid ==
  data # Null =>
    \/ data.activeRole \in {"ED", "Play", "Project"}
    \/ \E i \in 1..Len(data.customRoles) : data.customRoles[i].id = data.activeRole

\* C16 witness: a custom role is active and another role has just been deleted
C16_Witness ==
  /\ last.op = "RoleModal.handleDelete" /\ last.setData
  /\ data.activeRole \notin {"ED", "Play", "Project"}
  /\ data.activeRole # last.arg.roleId

C18_LoadingGate ==
  loading =>
    /\ data = Null
    /\ ~LoginPageShown /\ ~MainShown
    /\ ~last.setData /\ last.sets = <<>>
    /\ last.op \in {"mount", "reload", "setResolved", "setRejected"}

\* C18 witness: a page that showed a logged-in user's document is loading again
C18_Witness ==
  /\ loading /\ last.op = "reload"
  /\ prev # Null /\ prev.user # Null
  /\ store[LoadKey].kind = "text"

\* C19: the localStorage adapter never throws, and a backend error in get or
\* set (which the adapter logs) ends in a rejected promise.
C19_AdapterFailureChannel ==
  env.adapter = "fallback" =>
    /\ last.saved # "threw"
    /\ last.op = "loadData" =>
         /\ last.arg.get # "threw"
         /\ "Error reading from storage:" \in last.logged
              => last.arg.get = "rejected"
    /\ "Error writing to storage:" \in last.logged => last.saved = "rejected"

\* C20: a role switch changes activeRole and nothing else of the document.
C20_RoleSwitchFrame ==
  last.op = "handleRoleSwitch" =>
    /\ data.activeRole = last.arg.role
    /\ [data EXCEPT !.activeRole = prev.activeRole] = prev

\* C20 witness: a switch to a custom role, with custom roles in the document
C20_Witness ==
  /\ last.op = "handleRoleSwitch"
  /\ data.activeRole \notin {"ED", "Play", "Project"}
  /\ prev.activeRole # data.activeRole
  /\ Len(data.customRoles) = 2

\* C21: after every mutation the document given to setData is the current
\* one whatever became of its storage set (done, pending or failed), and each
\* set the step issued carries the serialization of that current document and
\* not of the one before.
C21_WriteBehind ==
  (last.setData /\ last.op # "loadData") =>
    /\ data = last.doc
    /\ \A i \in 1..Len(last.sets) :
         /\ last.sets[i].str = JSONstringify(data)
         /\ data # prev => last.sets[i].str # JSONstringify(prev)

\* C21 witness: a role switch is visible while its storage set is pending
C21_Witness ==
  /\ last.op = "handleRoleSwitch" /\ last.saved = "pending"
  /\ data.activeRole = "Project" /\ prev.activeRole = "ED"
  /\ store[SaveKey] # JSONstringify(data)

\* A document in which every cast or crew record names a production of the
\* document and activeRole is a built-in role or a custom role of the document
C22_Consistent(d) ==
  /\ \A i \in 1..Len(d.castCrew) :
       \E k \in 1..Len(d.productions) :
         d.productions[k].id = d.castCrew[i].productionId
  /\ \/ d.activeRole \in {"ED", "Play", "Project"}
     \/ \E i \in 1..Len(d.customRoles) : d.customRoles[i].id = d.activeRole

\* C22: deleting a production with its cast and crew, and deleting the active
\* custom role with the reset of activeRole, are each one setData and one
\* storage set; the document in memory, every document on its way to the store
\* and the document in the store never have a production gone with its cast or
\* crew left, or a role gone with activeRole still naming it.
C22_CascadeAtomic ==
  /\ data # Null => C22_Consistent(data)
  /\ \A i \in 1..Len(inflight) :
       /\ C22_Consistent(inflight[i].doc)
       /\ inflight[i].str = JSONstringify(inflight[i].doc)
  /\ store[SaveKey].kind = "text" =>
       C22_Consistent(JSONparse(store[SaveKey]).value)
  /\ (last.op \in {"handleDeleteProduction", "RoleModal.handleDelete"}
        /\ last.setData) =>
       /\ Len(last.sets) = 1
       /\ last.sets[1].str = JSONstringify(data)
       /\ C22_Consistent(last.doc)

\* C22 witness: the write of a production deletion that took cast with it has
\* landed in the store, where a production and its cast remain
C22_Witness ==
  /\ last.op = "handleDeleteProduction" /\ last.setData
  /\ Len(prev.productions) = 2 /\ Len(prev.castCrew) = 2
  /\ store[SaveKey] = JSONstringify(data)
  /\ Len(data.productions) = 1 /\ Len(data.castCrew) = 1

\* The positions of the metrics of the active role, and of those among them
\* dated within the 30 days before now
C23_OfRole(d) == {i \in 1..Len(d.metrics) : d.metrics[i].role = d.activeRole}
C23_Recent(d, now) ==
  {i \in C23_OfRole(d) : DateOfIso(d.metrics[i].date) >= now - ThirtyDays}

RECURSIVE C23_TotalEI(_, _)
C23_TotalEI(d, I) ==
  IF I = {} THEN 0
  ELSE LET i == CHOOSE x \in I : TRUE
       IN d.metrics[i].ei_rating + C23_TotalEI(d, I \ {i})

RECURSIVE C23_TotalPS(_, _)
C23_TotalPS(d, I) ==
  IF I = {} THEN 0
  ELSE LET i == CHOOSE x \in I : TRUE
       IN d.metrics[i].psych_safety_rating + C23_TotalPS(d, I \ {i})

\* The fraction a is the mean of total over count, 0 when count is 0
C23_IsMean(a, total, count) ==
  IF count = 0 THEN a.num = 0 ELSE a.num * count = total * a.den

\* C23 as stated: the dashboard averages are the means over the metrics of
\* the active role dated within the last 30 days.
C23_Original ==
  MainShown =>
    /\ C23_IsMean(avgEI(data, clock), C23_TotalEI(data, C23_Recent(data, clock)),
                  Cardinality(C23_Recent(data, clock)))
    /\ C23_IsMean(avgPS(data, clock), C23_TotalPS(data, C23_Recent(data, clock)),
                  Cardinality(C23_Recent(data, clock)))

\* C23 amended: the dashboard averages are the means over all metrics of the
\* active role whatever their date, metrics of other roles not contributing;
\* only the trend chart is limited to the metrics of the last 30 days.
C23_AllTimeAverages ==
  MainShown =>
    /\ C23_IsMean(avgEI(data, clock), C23_TotalEI(data, C23_OfRole(data)),
                  Cardinality(C23_OfRole(data)))
    /\ C23_IsMean(avgPS(data, clock), C23_TotalPS(data, C23_OfRole(data)),
                  Cardinality(C23_OfRole(data)))
    /\ Len(last30Days(data, clock)) = Cardinality(C23_Recent(data, clock))

\* C23 witness: the active role has a metric older than 30 days and a recent
\* one with other ratings, and both count in the averages
C23_Witness ==
  /\ MainShown
  /\ Cardinality(C23_OfRole(data)) = 2
  /\ Cardinality(C23_Recent(data, clock)) = 1
  /\ avgEI(data, clock) = [num |-> 7, den |-> 2]
  /\ avgPS(data, clock) = [num |-> 8, den |-> 2]

\* C24: whatever is stored under the key, once initialization has finished
\* the render shows the login page or the main view.
C24_NoFatalStoredValue ==
  ~loading => (LoginPageShown \/ MainShown)

\* C25: the load that installs a document issues a set of that document
\* though nothing was mutated; when that set succeeds at once the store holds
\* the installed document, so that after a load that fell back to the seeded
\* default (get failed, or value not JSON) the stored value is the seeded
\* default; when it is pending, it is on its way with that document.
C25_HydrationSaves ==
  (last.op = "loadData" /\ data # Null) =>
    /\ Len(last.sets) = 1 /\ last.sets[1].key = SaveKey
    /\ last.sets[1].str = JSONstringify(last.doc)
    /\ last.saved = "resolved" => store[SaveKey] = JSONstringify(last.doc)
    /\ last.saved = "pending" =>
         \E i \in 1..Len(inflight) : inflight[i].doc = last.doc
    /\ (\/ last.arg.get \in Failed
        \/ last.arg.value.kind = "garbage") => IsSeededDefault(last.doc)

\* C25 witness: a stored value that is not JSON has been replaced in the
\* store by the seeded default, the load being the only thing that happened
C25_Witness ==
  /\ last.op = "loadData" /\ last.arg.get = "resolved"
  /\ last.arg.value.kind = "garbage"
  /\ last.saved = "resolved"
  /\ store[SaveKey] = JSONstringify(SeededDefault(clock))

\* C26: on a medium where every set succeeds, once no issued set is still
\* pending the stored value is the serialization of the document in memory.
C26_SavesInOrder ==
  (~env.faulty /\ ~loading /\ data # Null /\ inflight = <<>>) =>
    store[SaveKey] = JSONstringify(data)

\* C27: saving the reflection of a meeting changes nothing but the
\* postMeetingReflection and actionItems of that meeting, and each of the two
\* is overwritten only with text the user entered: a field the user did not
\* type into keeps what was saved before.
C27_ReflectionFrame ==
  (last.op = "MeetingPlanning.handleUpdateReflection") =>
    /\ Len(data.meetings) = Len(prev.meetings)
    /\ [data EXCEPT !.meetings = prev.meetings] = prev
    /\ \A i \in 1..Len(data.meetings) :
         LET old == prev.meetings[i]
             new == data.meetings[i]
         IN /\ old.id # last.arg.id => new = old
            /\ old.id = last.arg.id =>
                 /\ [new EXCEPT !.postMeetingReflection = old.postMeetingReflection,
                                !.actionItems = old.actionItems] = old
                 /\ new.postMeetingReflection =
                      IF old.id \in DOMAIN ui.reflectionData
                      THEN ui.reflectionData[old.id]
                      ELSE old.postMeetingReflection
                 /\ new.actionItems =
                      IF old.id \in DOMAIN ui.actionItemsData
                      THEN ui.actionItemsData[old.id]
                      ELSE old.actionItems

\* C28: every id among the members of a group is the id of an employee of
\* the document.
C28_MembersAreEmployees ==
  data # Null =>
    \A g \in 1..Len(data.employeeGroups) :
      \A k \in 1..Len(data.employeeGroups[g].members) :
        \E e \in 1..Len(data.employees) :
          data.employees[e].id = data.employeeGroups[g].members[k]

\* C29: whenever the main view shows the custom-role view, activeRole is the
\* id of a custom role of the document, so that CustomRole finds its role.
C29_CustomViewHasRole ==
  (MainShown /\ ui.currentView = "custom") =>
    \E i \in 1..Len(data.customRoles) : data.customRoles[i].id = data.activeRole

\* A step that is the second of two successive toggleComplete calls on the
\* same to-do id; prev is then the document before the first of the two
C30_SecondToggle ==
  /\ last.op = "TodosSection.toggleComplete"
  /\ last'.op = "TodosSection.toggleComplete"
  /\ last'.arg.id = last.arg.id
  /\ data' # data

\* C30 as stated: two successive toggles of a to-do restore the document
\* exactly, the status of the to-do included, whatever the status was.
C30_Original ==
  [][C30_SecondToggle => data' = prev]_vars

\* C30 amended: two successive toggles of a to-do restore its completed flag
\* and every other field and to-do; its status is restored when it was Not
\* Started or Completed, and is Not Started when it was In Progress or On Hold.
C30_ToggleTwice ==
  [][C30_SecondToggle =>
       /\ data' = [prev EXCEPT !.todos =
                     [i \in 1..Len(prev.todos) |->
                        LET old == prev.todos[i]
                        IN IF old.id = last.arg.id
                           THEN [old EXCEPT !.status =
                                   IF old.status \in {"In Progress", "On Hold"}
                                   THEN "Not Started" ELSE old.status]
                           ELSE old]]
       /\ \A i \in 1..Len(prev.todos) :
            prev.todos[i].status \in {"Not Started", "Completed"} =>
              data'.todos[i] = prev.todos[i]]_vars

\* C30 witness: a toggle has taken a to-do from Completed back to Not Started
\* and not completed, its other fields as before, another to-do being on hold
C30_Witness ==
  /\ last.op = "TodosSection.toggleComplete"
  /\ \E i, k \in 1..Len(data.todos) :
       /\ data.todos[i].id = last.arg.id
       /\ prev.todos[i].status = "Completed" /\ prev.todos[i].completed
       /\ data.todos[i] = [prev.todos[i] EXCEPT !.status = "Not Started",
                                                 !.completed = FALSE]
       /\ data.todos[k].id # last.arg.id /\ data.todos[k].status = "On Hold"

=============================================================================
